---- MODULE Spec2Model ----
(***************************************************************************)
(* Model of the med-parser MLX extraction pipeline:                        *)
(*   - MedicalCodeVectorDB         (src/mlx_advanced_pipeline.py)          *)
(*   - MedGemmaPipeline            (src/mlx_medgemma_pipeline.py)          *)
(*   - AdvancedMedGemmaPipeline    (src/mlx_advanced_pipeline.py)          *)
(*   - get_pipeline and the views  (src/med_app/mlx_views.py)              *)
(*                                                                         *)
(* Five specifications share the module:                                   *)
(*   Spec        one POST /process request served by a pipeline handle:    *)
(*               the correction orchestrator, step by step, and the        *)
(*               response.                                                 *)
(*   SpecSrv     the process-wide handle _pipeline under concurrent        *)
(*               request threads: get_pipeline, load_model, the views.     *)
(*   SpecInput   the input stage of process_medical_text on request        *)
(*               bodies of every shape.                                    *)
(*   SpecLookup  search_icd10 / search_rxnorm on the two code stores.      *)
(*   SpecParse   extract_json_from_response on model responses.            *)
(***************************************************************************)
EXTENDS Integers, Sequences, FiniteSets, TLC

(***************************************************************************)
(* Python values.  None stands for Python's None wherever a string is      *)
(* expected (a missing name, no lookup result, no error message).          *)
(***************************************************************************)
None == "<None>"

(***************************************************************************)
(* str helpers, on TLA+ strings character by character.                    *)
(***************************************************************************)
Uppers == "ABCDEFGHIJKLMNOPQRSTUVWXYZ"
Lowers == "abcdefghijklmnopqrstuvwxyz"

CharAt(s, i) == SubSeq(s, i, i)

\* the lower-case letter of every upper-case letter
LowerOf ==
    [c \in {CharAt(Uppers, i) : i \in 1..Len(Uppers)} |->
        CharAt(Lowers, CHOOSE i \in 1..Len(Uppers) : CharAt(Uppers, i) = c)]

LowerChar(c) == IF c \in DOMAIN LowerOf THEN LowerOf[c] ELSE c

RECURSIVE LowerOfString(_)
\* str.lower(), character by character (halving keeps the recursion shallow)
LowerOfString(s) ==
    IF Len(s) = 0 THEN ""
    ELSE IF Len(s) = 1 THEN LowerChar(s)
    ELSE LET h == Len(s) \div 2
         IN  LowerOfString(SubSeq(s, 1, h)) \o LowerOfString(SubSeq(s, h + 1, Len(s)))

IsSpace(c) == c = " "

\* set(str.split()): the maximal runs of non-whitespace characters
WordsOfString(s) ==
    LET n == Len(s)
        starts == {i \in 1..n : ~IsSpace(CharAt(s, i)) /\ (i = 1 \/ IsSpace(CharAt(s, i - 1)))}
        ends   == {j \in 1..n : ~IsSpace(CharAt(s, j)) /\ (j = n \/ IsSpace(CharAt(s, j + 1)))}
        EndOf(i) == CHOOSE j \in ends : j >= i /\ \A k \in ends : k >= i => j <= k
    IN  {SubSeq(s, i, EndOf(i)) : i \in starts}

\* the Python operator `t in d` on strings
IsSubstring(t, d) ==
    \E i \in 1..(Len(d) - Len(t) + 1) : SubSeq(d, i, i + Len(t) - 1) = t

(***************************************************************************)
(* MedicalCodeVectorDB: the two stores, in dict insertion order.           *)
(***************************************************************************)
icd10_codes ==
    << <<"I10",     "Essential (primary) hypertension">>,
       <<"I11.0",   "Hypertensive heart disease with heart failure">>,
       <<"E11.9",   "Type 2 diabetes mellitus without complications">>,
       <<"E11.65",  "Type 2 diabetes mellitus with hyperglycemia">>,
       <<"I25.10",  "Atherosclerotic heart disease of native coronary artery without angina pectoris">>,
       <<"I25.119", "Atherosclerotic heart disease of native coronary artery with unspecified angina pectoris">>,
       <<"E78.5",   "Hyperlipidemia, unspecified">>,
       <<"E78.0",   "Pure hypercholesterolemia">>,
       <<"I63.9",   "Cerebral infarction, unspecified">>,
       <<"N18.3",   "Chronic kidney disease, stage 3">>,
       <<"J44.1",   "Chronic obstructive pulmonary disease with acute exacerbation">>,
       <<"J44.0",   "Chronic obstructive pulmonary disease with acute lower respiratory infection">> >>

rxnorm_codes ==
    << <<"314076", "Lisinopril 10 MG Oral Tablet">>,
       <<"314077", "Lisinopril 20 MG Oral Tablet">>,
       <<"861007", "Metformin hydrochloride 1000 MG Oral Tablet">>,
       <<"860975", "Metformin hydrochloride 500 MG Oral Tablet">>,
       <<"617310", "Atorvastatin 40 MG Oral Tablet">>,
       <<"617311", "Atorvastatin 80 MG Oral Tablet">>,
       <<"308136", "Amlodipine 5 MG Oral Tablet">>,
       <<"197361", "Aspirin 81 MG Oral Tablet">>,
       <<"855332", "Metoprolol succinate 50 MG Extended Release Oral Tablet">>,
       <<"351761", "Warfarin Sodium 5 MG Oral Tablet">> >>

\* Scores are fractions <<numerator, denominator>>; the default threshold is 0.7.
\* terms looked up: names as they are extracted, partial names, names with
\* several words, names that match nothing, and terms without a word
LookupTerms ==
    {"", " ", "hypertension", "hypertens", "chronic", "heart disease",
     "diabetes hyperglycemia", "Type 2 diabetes", "lisinopril", "Lisinopril 20",
     "lisin"}

\* The strings the stores and the lookups work on.  str.lower() and
\* str.split() of each are tabulated once; Lower and Words read the table and
\* compute only for a string that is not in it.
StoreStrings ==
    {icd10_codes[k][2] : k \in DOMAIN icd10_codes} \cup
    {rxnorm_codes[k][2] : k \in DOMAIN rxnorm_codes} \cup
    LookupTerms \cup {"Lisinopril", "hypertension"}

LowerTable == [x \in StoreStrings |-> LowerOfString(x)]

WordsTable == [x \in {LowerTable[y] : y \in StoreStrings} |-> WordsOfString(x)]

\* str.lower()
Lower(s) == IF s \in DOMAIN LowerTable THEN LowerTable[s] ELSE LowerOfString(s)

\* set(str.split())
Words(s) == IF s \in DOMAIN WordsTable THEN WordsTable[s] ELSE WordsOfString(s)

ThresholdNum == 7
ThresholdDen == 10
DefaultThreshold == <<ThresholdNum, ThresholdDen>>

ScoreGT(a, b) == a[1] * b[2] > b[1] * a[2]
ScoreGE(a, b) == a[1] * b[2] >= b[1] * a[2]

\* overlap / len(term_words)
OverlapScore(term_words, desc_words) ==
    <<Cardinality(term_words \cap desc_words), Cardinality(term_words)>>

\* mutant of Icd10Step: `score >= best_score`, the last of equals wins
Icd10Step_LastSeen(acc, entry, term_lower, threshold) ==
    LET term_words == Words(term_lower)
        desc_words == Words(Lower(entry[2]))
        score      == OverlapScore(term_words, desc_words)
    IN  IF term_words = {} THEN acc
        ELSE IF ScoreGE(score, acc.best_score) /\ ScoreGE(score, threshold)
             THEN [best_match |-> entry[1], best_score |-> score]
             ELSE acc

\* One iteration of the `for code, description in ...items()` loop of
\* search_icd10; acc is [best_match, best_score].
Icd10Step(acc, entry, term_lower, threshold) ==
    LET term_words == Words(term_lower)
        desc_words == Words(Lower(entry[2]))
        score      == OverlapScore(term_words, desc_words)
    IN  IF term_words = {} THEN acc
        ELSE IF ScoreGT(score, acc.best_score) /\ ScoreGE(score, threshold)
             THEN [best_match |-> entry[1], best_score |-> score]
             ELSE acc

\* One iteration of the loop of search_rxnorm: the substring shortcut first.
RxnormStep(acc, entry, term_lower, threshold) ==
    LET desc_lower == Lower(entry[2])
        term_words == Words(term_lower)
        desc_words == Words(desc_lower)
        shortcut   == IsSubstring(term_lower, desc_lower)
        score      == IF shortcut THEN <<1, 1>> ELSE OverlapScore(term_words, desc_words)
    IN  IF ~shortcut /\ term_words = {} THEN acc
        ELSE IF ScoreGT(score, acc.best_score) /\ ScoreGE(score, threshold)
             THEN [best_match |-> entry[1], best_score |-> score]
             ELSE acc

RECURSIVE Icd10Loop(_, _, _, _, _)
\* the loop over self.icd10_codes.items() from its k-th entry on
Icd10Loop(codes, acc, k, term_lower, threshold) ==
    IF k > Len(codes) THEN acc
    ELSE Icd10Loop(codes, Icd10Step(acc, codes[k], term_lower, threshold),
                   k + 1, term_lower, threshold)

RECURSIVE RxnormLoop(_, _, _, _, _)
\* the loop over self.rxnorm_codes.items() from its k-th entry on
RxnormLoop(codes, acc, k, term_lower, threshold) ==
    IF k > Len(codes) THEN acc
    ELSE RxnormLoop(codes, RxnormStep(acc, codes[k], term_lower, threshold),
                    k + 1, term_lower, threshold)

NoMatch == [best_match |-> None, best_score |-> <<0, 1>>]

\* search_icd10: the locals best_match and best_score when the loop is over
Icd10Best(self, term, threshold) ==
    Icd10Loop(self.icd10_codes, NoMatch, 1, Lower(term), threshold)

\* search_rxnorm: the locals best_match and best_score when the loop is over
RxnormBest(self, term, threshold) ==
    RxnormLoop(self.rxnorm_codes, NoMatch, 1, Lower(term), threshold)

\* MedicalCodeVectorDB.search_icd10(self, term, threshold): best code or None
search_icd10(self, term, threshold) == Icd10Best(self, term, threshold).best_match

\* MedicalCodeVectorDB.search_rxnorm(self, term, threshold): best code or None
search_rxnorm(self, term, threshold) == RxnormBest(self, term, threshold).best_match

\* MedicalCodeVectorDB.__init__: the two stores as loaded
LoadedStores == [icd10_codes |-> icd10_codes, rxnorm_codes |-> rxnorm_codes]

(***************************************************************************)
(* Bounds of the model.                                                    *)
(***************************************************************************)
\* the most entities (medications plus conditions) one model output holds
MaxEntities == 2
\* request threads of the server process
NumThreads == 2
\* requests each thread serves
MaxRequests == 2
\* store lookups followed in a row
MaxLookups == 2

(***************************************************************************)
(* JSON values produced by the model.  An entity is a dict, of which the   *)
(* model keeps the keys the pipeline reads or writes: name, the code       *)
(* (rxnorm_code / icd10_code) and source.  Absent marks a missing key.     *)
(***************************************************************************)
Absent == "<absent>"

EntityNames == {"Lisinopril", "hypertension", None}
LlmCodes    == {"XX", "I10"}

LlmEntities == [name : EntityNames, code : LlmCodes, source : {Absent}]

RECURSIVE SeqsUpTo(_, _)
SeqsUpTo(S, n) ==
    IF n = 0 THEN {<<>>}
    ELSE LET shorter == SeqsUpTo(S, n - 1)
         IN  shorter \cup {Append(q, e) : q \in {r \in shorter : Len(r) = n - 1}, e \in S}

\* json.loads results: None (nothing parsed, or the JSON value null), a falsy
\* value such as {}, a non-empty list, a scalar, an object that lacks one of
\* the two keys (the missing one reads as [] through .get(key, [])), or a
\* dict with the two entity lists.
NoData     == [kind |-> "none",   medications |-> <<>>, conditions |-> <<>>]
EmptyJson  == [kind |-> "empty",  medications |-> <<>>, conditions |-> <<>>]
ListJson   == [kind |-> "list",   medications |-> <<>>, conditions |-> <<>>]
ScalarJson == [kind |-> "scalar", medications |-> <<>>, conditions |-> <<>>]

DictJson ==
    {[kind |-> "dict", medications |-> m, conditions |-> c] :
        <<m, c>> \in {p \in SeqsUpTo(LlmEntities, MaxEntities) \X SeqsUpTo(LlmEntities, MaxEntities) :
                         Len(p[1]) + Len(p[2]) <= MaxEntities}}

\* objects with the key medications only
PartialJson ==
    {[kind |-> "partial", medications |-> m, conditions |-> <<>>] :
        m \in SeqsUpTo(LlmEntities, 1)}

(***************************************************************************)
(* JSON text.  A model response is a string; json.loads is the table of    *)
(* the JSON documents the model can write, by their text, and raises       *)
(* JSONDecodeError for every other string.                                 *)
(***************************************************************************)
\* one entity as the model writes it; an entity without a name has no key
DumpsEntity(e, code_key) ==
    "{" \o (IF e.name = None THEN "" ELSE "\"name\": \"" \o e.name \o "\", ")
        \o "\"" \o code_key \o "\": \"" \o e.code \o "\"}"

RECURSIVE DumpsEntities(_, _)
DumpsEntities(entities, code_key) ==
    IF entities = <<>> THEN ""
    ELSE IF Len(entities) = 1 THEN DumpsEntity(entities[1], code_key)
    ELSE DumpsEntity(entities[1], code_key) \o ", "
             \o DumpsEntities(Tail(entities), code_key)

\* the JSON text of a value
Dumps(v) ==
    CASE v.kind = "none"    -> "null"
      [] v.kind = "empty"   -> "{}"
      [] v.kind = "list"    -> "[1]"
      [] v.kind = "scalar"  -> "5"
      [] v.kind = "partial" ->
            "{\"medications\": [" \o DumpsEntities(v.medications, "rxnorm_code") \o "]}"
      [] v.kind = "dict"    ->
            "{\"medications\": [" \o DumpsEntities(v.medications, "rxnorm_code")
                \o "], \"conditions\": [" \o DumpsEntities(v.conditions, "icd10_code")
                \o "]}"

JsonValues == {NoData, EmptyJson, ListJson, ScalarJson} \cup PartialJson \cup DictJson

\* a JSON list holding one object reads as a list
ListOfOne(v) == "[" \o Dumps(v) \o "]"

JsonDocuments ==
    {<<Dumps(v), v>> : v \in JsonValues} \cup
    {<<ListOfOne(v), ListJson>> : v \in {d \in DictJson : Len(d.medications) = 1 /\ d.conditions = <<>>}}

JsonTable ==
    [text \in {d[1] : d \in JsonDocuments} |->
        (CHOOSE d \in JsonDocuments : d[1] = text)[2]]

IsJsonSpace(c) == c \in {" ", "\n"}

RECURSIVE FirstSolid(_, _)
\* the index of the first character from i on that is not JSON whitespace
FirstSolid(text, i) ==
    IF i > Len(text) \/ ~IsJsonSpace(CharAt(text, i)) THEN i
    ELSE FirstSolid(text, i + 1)

RECURSIVE LastSolid(_, _)
\* the index of the last character up to i that is not JSON whitespace
LastSolid(text, i) ==
    IF i < 1 \/ ~IsJsonSpace(CharAt(text, i)) THEN i
    ELSE LastSolid(text, i - 1)

\* the text without leading and trailing JSON whitespace
StripJsonSpace(text) ==
    SubSeq(text, FirstSolid(text, 1), LastSolid(text, Len(text)))

\* json.loads(text): ok with the value, or not ok for JSONDecodeError
json_loads(text) ==
    LET document == StripJsonSpace(text)
    IN  IF document \in DOMAIN JsonTable
        THEN [ok |-> TRUE, value |-> JsonTable[document]]
        ELSE [ok |-> FALSE, value |-> NoData]

(***************************************************************************)
(* re.search with the three patterns of extract_json_from_response.  A     *)
(* TLA+ string cannot hold the backquote, so BQ stands for it in every     *)
(* text of the model.                                                      *)
(***************************************************************************)
BQ == "'"

Fence == BQ \o BQ \o BQ

\* the first index >= from at which pat occurs in text, or 0
FindFirst(pat, text, from) ==
    LET hits == {i \in from..(Len(text) - Len(pat) + 1) :
                    SubSeq(text, i, i + Len(pat) - 1) = pat}
    IN  IF hits = {} THEN 0 ELSE CHOOSE i \in hits : \A k \in hits : i <= k

\* the last index at which pat occurs in text, or 0
FindLast(pat, text) ==
    LET hits == {i \in 1..(Len(text) - Len(pat) + 1) :
                    SubSeq(text, i, i + Len(pat) - 1) = pat}
    IN  IF hits = {} THEN 0 ELSE CHOOSE i \in hits : \A k \in hits : i >= k

NoReMatch == [matched |-> FALSE, group |-> ""]

\* re.search(opener (.*?) \n```, text, re.DOTALL): group(1) of the leftmost
\* match, which ends at the first closing fence after the opener
FencedSearch(opener, text) ==
    LET closer == "\n" \o Fence
        i == FindFirst(opener, text, 1)
        k == IF i = 0 THEN 0 ELSE FindFirst(closer, text, i + Len(opener))
    IN  IF i = 0 \/ k = 0 THEN NoReMatch
        ELSE [matched |-> TRUE, group |-> SubSeq(text, i + Len(opener), k - 1)]

\* re.search(r'\{.*\}', text, re.DOTALL): group(0), from the first opening
\* brace to the last closing brace after it
BraceSearch(text) ==
    LET i == FindFirst("{", text, 1)
        k == FindLast("}", text)
    IN  IF i = 0 \/ k < i THEN NoReMatch
        ELSE [matched |-> TRUE, group |-> SubSeq(text, i, k)]

\* mutant of json_patterns: the brace pattern is tried before the fences
json_patterns_BraceFirst == <<"brace", "labeled", "unlabeled">>

\* the list json_patterns, in its order
json_patterns == <<"labeled", "unlabeled", "brace">>

\* re.search(pattern, response, re.DOTALL) and the choice of the group
SearchPattern(pattern, response) ==
    CASE pattern = "labeled"   -> FencedSearch(Fence \o "json\n", response)
      [] pattern = "unlabeled" -> FencedSearch(Fence \o "\n", response)
      [] pattern = "brace"     -> BraceSearch(response)

RECURSIVE TryPatterns(_, _)
\* the loop `for pattern in json_patterns` from the k-th pattern on, then the
\* direct parse of the whole response
TryPatterns(k, response) ==
    IF k > Len(json_patterns)
    THEN json_loads(response).value
    ELSE LET match  == SearchPattern(json_patterns[k], response)
             loaded == json_loads(match.group)
         IN  IF match.matched /\ loaded.ok
             THEN loaded.value
             ELSE TryPatterns(k + 1, response)

\* MedGemmaPipeline.extract_json_from_response: the parsed value, or None
extract_json_from_response(response) == TryPatterns(1, response)

\* Raw model responses of a run: a text holding no JSON at all, or the JSON
\* text of a value.
Responses ==
    {"I cannot help with that."} \cup
    {Dumps(v) : v \in {EmptyJson, ListJson} \cup DictJson}

\* extract_json_from_response of every response of a run, tabulated once
ParsedResponse == [response \in Responses |-> extract_json_from_response(response)]

\* mutant of Truthy: the `if not extracted_data` check is lost
Truthy_Unchecked(v) == TRUE

\* Python truthiness of a parsed value (`if not extracted_data`, `if retry_data`)
Truthy(v) == v.kind \notin {"none", "empty"}

EntityCount(d) == Len(d.medications) + Len(d.conditions)

(***************************************************************************)
(* State.                                                                  *)
(***************************************************************************)
VARIABLES
    pc,                   \* where the request is in the orchestrator / view
    validate,             \* request field validate_fhir
    use_fallback,         \* request field use_fallback
    FHIR_AVAILABLE,       \* module global of mlx_medgemma_pipeline
    model,                \* self.model of the handle: "loaded" or None
    oracle,               \* verdicts the FHIR library has given so far
    result,               \* the result dict of process_transcript
    total_invalid,        \* local of process_transcript_with_fallback
    corrected_data,       \* local of process_transcript_with_fallback
    revalidation_results, \* local of process_transcript_with_fallback
    final_data,           \* local of process_transcript_with_fallback
    generate_calls,       \* calls of generate_response in this run
    validate_calls,       \* calls of validate_fhir_medication/_condition
    lookup_calls,         \* calls of search_rxnorm/search_icd10
    initial_outcome,      \* how the initial generation + parse ended
    retry_outcome,        \* how the correction generation + parse ended
    initial_count,        \* number of entities of the initial extraction
    response,             \* the JsonResponse of process_medical_text
    retry_prompt          \* correction_guidance of the retry prompt, once built

runVars == <<pc, validate, use_fallback, FHIR_AVAILABLE, model, oracle, result,
             total_invalid, corrected_data, revalidation_results, final_data,
             generate_calls, validate_calls, lookup_calls, initial_outcome,
             retry_outcome, initial_count, response, retry_prompt>>

VARIABLES
    _pipeline,            \* module global of mlx_views: None or a handle (object id)
    handles,              \* self.model of every pipeline object built, by id
    tpc,                  \* per request thread: where it is in the view
    request,              \* per thread: the request it serves
    pipeline,             \* per thread: what get_pipeline returned (0: not yet)
    loading,              \* per thread: the handle whose load_model() it runs
    served,               \* per thread: requests answered so far
    status,               \* per thread: status of its last response
    arrived_during_load,  \* per thread: a load was running when its request came
    completions           \* pipeline runs whose generate_response reached generate(...)

srvVars == <<_pipeline, handles, tpc, request, pipeline, loading, served, status,
             arrived_during_load, completions>>

VARIABLES
    body,                 \* request.body handed to process_medical_text
    answer,               \* what the input stage of process_medical_text did with it
    lookups,              \* the store lookups made so far, with what they returned
    vector_db,            \* self.icd10_codes / self.rxnorm_codes of the MedicalCodeVectorDB
    raw_text,             \* the text handed to extract_json_from_response
    parsed                \* what extract_json_from_response returned for it

fnVars == <<body, answer, lookups, vector_db, raw_text, parsed>>

vars == <<runVars, srvVars, fnVars>>

NoResults == [kind |-> "empty", medications |-> <<>>, conditions |-> <<>>]

\* a result dict without the key correction_stages
NoStages == <<>>

\* no correction prompt has been built
NoPrompt == <<>>

\* process_transcript: the result dict as first built
NewResult ==
    [success |-> FALSE, extracted_data |-> NoData, validation_results |-> NoResults,
     errors |-> <<>>, correction_stages |-> NoStages]

(***************************************************************************)
(* Validator adapter.  The FHIR library is an opaque but deterministic     *)
(* function of the fields it is given (category, name, code): oracle       *)
(* records the verdict of every entity validated so far, and a new entity  *)
(* gets either verdict.                                                    *)
(***************************************************************************)
Key(cat, e) == <<cat, e.name, e.code>>

KeysOf(d) ==
    {Key("medication", d.medications[i]) : i \in DOMAIN d.medications} \cup
    {Key("condition", d.conditions[i]) : i \in DOMAIN d.conditions}

\* the oracles that agree with orc and also decide the entities of d
OracleExtensions(orc, d) ==
    IF ~FHIR_AVAILABLE THEN {orc}
    ELSE {orc @@ g : g \in [KeysOf(d) \ DOMAIN orc -> BOOLEAN]}

\* mutant of validate_fhir_medication: validation blocks when the library is absent
validate_fhir_medication_Blocking(med_data, orc) ==
    IF ~FHIR_AVAILABLE THEN <<FALSE, "FHIR library not installed">>
    ELSE IF orc[Key("medication", med_data)] THEN <<TRUE, None>>
         ELSE <<FALSE, "validation error">>

\* MedGemmaPipeline.validate_fhir_medication: (is_valid, error)
validate_fhir_medication(med_data, orc) ==
    IF ~FHIR_AVAILABLE THEN <<TRUE, None>>
    ELSE IF orc[Key("medication", med_data)] THEN <<TRUE, None>>
         ELSE <<FALSE, "validation error">>

\* mutant of validate_fhir_condition: the library's exception is swallowed
validate_fhir_condition_Swallowing(condition_data, orc) == <<TRUE, None>>

\* MedGemmaPipeline.validate_fhir_condition: (is_valid, error); the library
\* raising for the entity is the verdict FALSE of orc, caught by `except
\* Exception` and returned as (False, str(e))
validate_fhir_condition(condition_data, orc) ==
    IF ~FHIR_AVAILABLE THEN <<TRUE, None>>
    ELSE IF orc[Key("condition", condition_data)] THEN <<TRUE, None>>
         ELSE <<FALSE, "validation error">>

\* the dict appended per entity; final validation adds the source key
ValidationRecord(e, verdict, with_source) ==
    [name   |-> e.name,
     valid  |-> verdict[1],
     error  |-> verdict[2],
     source |-> IF with_source
                THEN (IF e.source = Absent THEN "model" ELSE e.source)
                ELSE Absent]

\* mutant of ValidateMedications: records inserted at the front of the list
ValidateMedications_Reversed(meds, orc, with_source) ==
    [i \in 1..Len(meds) |->
        ValidationRecord(meds[Len(meds) + 1 - i],
                         validate_fhir_medication(meds[Len(meds) + 1 - i], orc),
                         with_source)]

\* the two `for ... in data.get(..., [])` validation loops, in list order
ValidateMedications(meds, orc, with_source) ==
    [i \in 1..Len(meds) |->
        ValidationRecord(meds[i], validate_fhir_medication(meds[i], orc), with_source)]

ValidateConditions(conds, orc, with_source) ==
    [i \in 1..Len(conds) |->
        ValidationRecord(conds[i], validate_fhir_condition(conds[i], orc), with_source)]

ValidateAll(d, orc, with_source) ==
    [kind        |-> "results",
     medications |-> ValidateMedications(d.medications, orc, with_source),
     conditions  |-> ValidateConditions(d.conditions, orc, with_source)]

\* sum(1 for m in records if not m["valid"])
CountInvalid(records) == Cardinality({i \in DOMAIN records : ~records[i].valid})

TotalInvalid(v) == CountInvalid(v.medications) + CountInvalid(v.conditions)

(***************************************************************************)
(* self_correct_with_retry                                                 *)
(***************************************************************************)
\* mutant of FailedNames: the names of all entities, not of the failed ones
FailedNames_All(records) == [i \in DOMAIN records |-> records[i].name]

\* [m for m in validation_results[...] if not m["valid"]], then the names
RECURSIVE FailedNames(_)
FailedNames(records) ==
    IF records = <<>> THEN <<>>
    ELSE IF ~Head(records).valid
         THEN <<Head(records).name>> \o FailedNames(Tail(records))
         ELSE FailedNames(Tail(records))

SeqRange(q) == {q[i] : i \in DOMAIN q}

\* ', '.join(names) raises TypeError when a name is not a string
JoinRaises(names) == None \in SeqRange(names)

\* the lines of the retry prompt that name entities: one for the failed
\* medications, then one for the failed conditions, each with its names in
\* list order (`', '.join(...)`)
correction_guidance(failed_medications, failed_conditions) ==
    (IF failed_medications # <<>>
     THEN <<[codes |-> "RxNorm", names |-> failed_medications]>> ELSE <<>>) \o
    (IF failed_conditions # <<>>
     THEN <<[codes |-> "ICD-10", names |-> failed_conditions]>> ELSE <<>>)

\* mutant of SelfCorrectResult: retry_data returned without `if retry_data`
SelfCorrectResult_Unchecked(initial_result, retry_data) == retry_data

\* what self_correct_with_retry returns once the retry call is over
SelfCorrectResult(initial_result, retry_data) ==
    IF Truthy(retry_data) THEN retry_data ELSE initial_result

(***************************************************************************)
(* fallback_to_vector_db                                                   *)
(***************************************************************************)
LookupNames == EntityNames \ {None}

RxnormTable == [n \in LookupNames |-> search_rxnorm(LoadedStores, n, DefaultThreshold)]
Icd10Table  == [n \in LookupNames |-> search_icd10(LoadedStores, n, DefaultThreshold)]

\* mutant of FallbackMedication: the `if not validation["valid"]` test is lost
FallbackMedication_AlsoValid(med, validation) ==
    IF med.name = None THEN med
    ELSE LET correct_code == RxnormTable[med.name]
         IN  IF correct_code # None
             THEN [med EXCEPT !.code = correct_code, !.source = "vector_db_fallback"]
             ELSE med

\* mutant of FallbackMedication: the code is overwritten, the source tag is not
FallbackMedication_Untagged(med, validation) ==
    IF validation.valid THEN med
    ELSE LET correct_code == RxnormTable[med.name]
         IN  IF correct_code # None THEN [med EXCEPT !.code = correct_code] ELSE med

\* body of the medications loop for one entry whose name can be looked up
FallbackMedication(med, validation) ==
    IF validation.valid THEN med
    ELSE LET correct_code == RxnormTable[med.name]
         IN  IF correct_code # None
             THEN [med EXCEPT !.code = correct_code, !.source = "vector_db_fallback"]
             ELSE med

\* mutant of FallbackCondition: a miss clears the code the model gave
FallbackCondition_ClearingOnMiss(cond, validation) ==
    IF validation.valid THEN cond
    ELSE LET correct_code == Icd10Table[cond.name]
         IN  IF correct_code # None
             THEN [cond EXCEPT !.code = correct_code, !.source = "vector_db_fallback"]
             ELSE [cond EXCEPT !.code = ""]

\* body of the conditions loop for one entry whose name can be looked up
FallbackCondition(cond, validation) ==
    IF validation.valid THEN cond
    ELSE LET correct_code == Icd10Table[cond.name]
         IN  IF correct_code # None
             THEN [cond EXCEPT !.code = correct_code, !.source = "vector_db_fallback"]
             ELSE cond

\* med['name'] / term.lower() raise for an invalid entry without a usable name:
\* the index of the first such entry, or Len + 1
RaiseIndex(entities, records) ==
    LET bad == {i \in DOMAIN entities : ~records[i].valid /\ entities[i].name = None}
    IN  IF bad = {} THEN Len(entities) + 1
        ELSE CHOOSE i \in bad : \A j \in bad : i <= j

\* The whole call.  The entity dicts are fixed in place, in list order, so the
\* entries before a raising one are already changed when it raises.
fallback_to_vector_db(extracted_data, validation_results) ==
    LET meds  == extracted_data.medications
        conds == extracted_data.conditions
        vm    == validation_results.medications
        vc    == validation_results.conditions
        km    == RaiseIndex(meds, vm)
        kc    == IF km <= Len(meds) THEN 1 ELSE RaiseIndex(conds, vc)
        meds2  == [i \in 1..Len(meds) |->
                      IF i < km THEN FallbackMedication(meds[i], vm[i]) ELSE meds[i]]
        conds2 == [i \in 1..Len(conds) |->
                      IF i < kc THEN FallbackCondition(conds[i], vc[i]) ELSE conds[i]]
    IN  [data    |-> [kind |-> "dict", medications |-> meds2, conditions |-> conds2],
         raised  |-> km <= Len(meds) \/ kc <= Len(conds),
         lookups |-> Cardinality({i \in DOMAIN meds : i < km /\ ~vm[i].valid}) +
                     Cardinality({i \in DOMAIN conds : i < kc /\ ~vc[i].valid})]

(***************************************************************************)
(* The orchestrator, one action per stage.                                 *)
(* pc: INITIAL -> VALIDATING -> (DONE | SELF_CORRECTING) -> RE_VALIDATING  *)
(*     -> (DONE | VECTOR_FALLBACK) -> FINAL_VALIDATING -> DONE, RAISED     *)
(*     when an exception leaves the pipeline, then RESPONDED.              *)
(***************************************************************************)
\* no response yet; errors is <<>> also when the response has no "errors" key
NoResponse == [status |-> 0, success |-> FALSE, correction_stages |-> NoStages,
               errors |-> <<>>]

\* `_pipeline = None`: no handle
NoHandle == 0

Threads == 1..NumThreads

\* the server process before any request
SrvInit ==
    /\ _pipeline = NoHandle
    /\ handles = <<>>
    /\ tpc = [t \in Threads |-> "idle"]
    /\ request = [t \in Threads |-> [kind |-> "none", transcript_ok |-> TRUE]]
    /\ pipeline = [t \in Threads |-> NoHandle]
    /\ loading = [t \in Threads |-> NoHandle]
    /\ served = [t \in Threads |-> 0]
    /\ status = [t \in Threads |-> 0]
    /\ arrived_during_load = [t \in Threads |-> FALSE]
    /\ completions = 0

\* no request body has reached the input stage
NoBody ==
    [kind |-> "none", transcript |-> [type |-> "absent", lead |-> 0, core |-> 0, trail |-> 0],
     validate_fhir |-> TRUE, use_fallback |-> TRUE]

\* the input stage of process_medical_text has answered nothing yet
\* (validate_fhir and use_fallback are the locals read from the body)
NoAnswer ==
    [stage |-> "waiting", status |-> 0, error |-> None,
     validate_fhir |-> TRUE, use_fallback |-> TRUE]

\* no text has been handed to the parser
NoText == ""

\* extract_json_from_response has not been called
NotParsed == [called |-> FALSE, value |-> NoData]

\* the input stage, the code stores and the parser before they are used
FnInit ==
    /\ body = NoBody
    /\ answer = NoAnswer
    /\ lookups = <<>>
    /\ vector_db = LoadedStores
    /\ raw_text = NoText
    /\ parsed = NotParsed

\* a request enters the orchestrator: nothing has run yet
RunInit ==
    /\ pc = "INITIAL"
    /\ oracle = <<>>
    /\ result = NewResult
    /\ total_invalid = 0
    /\ corrected_data = NoData
    /\ revalidation_results = NoResults
    /\ final_data = NoData
    /\ generate_calls = 0
    /\ validate_calls = 0
    /\ lookup_calls = 0
    /\ initial_outcome = "none"
    /\ retry_outcome = "none"
    /\ initial_count = 0
    /\ response = NoResponse
    /\ retry_prompt = NoPrompt

Init ==
    /\ validate \in BOOLEAN
    /\ use_fallback \in BOOLEAN
    /\ FHIR_AVAILABLE \in BOOLEAN
    /\ model \in {"loaded", None}
    /\ RunInit
    /\ SrvInit
    /\ FnInit

\* process_transcript after a response came back: parse, then store the data
AfterInitialParse(extracted_data) ==
    IF ~Truthy(extracted_data)
    THEN [pc |-> "DONE",
          result |-> [NewResult EXCEPT
                         !.errors = <<"Failed to extract valid JSON from response">>]]
    ELSE IF extracted_data.kind \notin {"dict", "partial"}
    THEN \* extracted_data.get(...) raises AttributeError
         [pc |-> "RAISED", result |-> [NewResult EXCEPT !.extracted_data = extracted_data]]
    ELSE [pc |-> "VALIDATING", result |-> [NewResult EXCEPT !.extracted_data = extracted_data]]

\* process_transcript steps 1-3: prompt, generate_response, extract JSON
InitialExtraction ==
    /\ pc = "INITIAL"
    /\ generate_calls' = generate_calls + 1
    /\ \/ \* generate_response raises (model not loaded, or generate() fails)
          /\ result' = [NewResult EXCEPT !.errors = <<"Inference failed">>]
          /\ pc' = "DONE"
          /\ initial_outcome' = "raised"
          /\ UNCHANGED initial_count
       \/ /\ model = "loaded"
          /\ \E raw_response \in Responses :
                LET extracted_data == ParsedResponse[raw_response]
                    next == AfterInitialParse(extracted_data)
                IN  /\ result' = next.result
                    /\ pc' = next.pc
                    /\ initial_outcome' =
                          IF extracted_data.kind = "none" THEN "unparsed"
                          ELSE IF next.pc = "DONE" THEN "falsy"
                          ELSE IF next.pc = "RAISED" THEN "not a dict"
                          ELSE "ok"
                    /\ initial_count' = EntityCount(extracted_data)
    /\ UNCHANGED <<validate, use_fallback, FHIR_AVAILABLE, model, oracle, total_invalid,
                   corrected_data, revalidation_results, final_data, validate_calls,
                   lookup_calls, retry_outcome, response, retry_prompt, srvVars, fnVars>>

\* mutant of AfterInitialValidation: no early return for a clean validation
AfterInitialValidation_NoEarlyReturn(invalid) == "SELF_CORRECTING"

\* process_transcript_with_fallback, `if total_invalid == 0: return result`
AfterInitialValidation(invalid) ==
    IF invalid = 0 THEN "DONE" ELSE "SELF_CORRECTING"

\* mutant of StopsAfterExtraction: the validate flag of the request is ignored
StopsAfterExtraction_Never(validate_flag) == FALSE

\* `if validate:` of process_transcript and `if ... or not validate: return
\* result` of process_transcript_with_fallback
StopsAfterExtraction(validate_flag) == ~validate_flag

\* process_transcript step 4 and the orchestrator's check of its result
InitialValidation ==
    /\ pc = "VALIDATING"
    /\ IF StopsAfterExtraction(validate)
       THEN /\ result' = [result EXCEPT !.success = TRUE]
            /\ pc' = "DONE"
            /\ UNCHANGED <<oracle, validate_calls, total_invalid>>
       ELSE \E o2 \in OracleExtensions(oracle, result.extracted_data) :
               LET validation_results == ValidateAll(result.extracted_data, o2, FALSE)
               IN  /\ oracle' = o2
                   /\ result' = [result EXCEPT !.validation_results = validation_results,
                                               !.success = TRUE]
                   /\ validate_calls' = validate_calls + EntityCount(result.extracted_data)
                   /\ IF use_fallback
                      THEN /\ total_invalid' = TotalInvalid(validation_results)
                           /\ pc' = AfterInitialValidation(TotalInvalid(validation_results))
                      ELSE /\ total_invalid' = total_invalid
                           /\ pc' = "DONE"
    /\ UNCHANGED <<validate, use_fallback, FHIR_AVAILABLE, model, corrected_data,
                   revalidation_results, final_data, generate_calls, lookup_calls,
                   initial_outcome, retry_outcome, initial_count, response, retry_prompt, srvVars, fnVars>>

\* self_correct_with_retry, called once by the orchestrator
SelfCorrect ==
    /\ pc = "SELF_CORRECTING"
    /\ LET failed_medications == FailedNames(result.validation_results.medications)
           failed_conditions  == FailedNames(result.validation_results.conditions)
       IN  IF failed_medications = <<>> /\ failed_conditions = <<>>
           THEN /\ corrected_data' = result.extracted_data
                /\ pc' = "RE_VALIDATING"
                /\ UNCHANGED <<generate_calls, retry_outcome, retry_prompt>>
           ELSE IF JoinRaises(failed_medications) \/ JoinRaises(failed_conditions)
           THEN \* building the correction prompt raises, outside the try
                /\ pc' = "RAISED"
                /\ UNCHANGED <<corrected_data, generate_calls, retry_outcome, retry_prompt>>
           ELSE /\ retry_prompt' = correction_guidance(failed_medications, failed_conditions)
                /\ generate_calls' = generate_calls + 1
                /\ pc' = "RE_VALIDATING"
                /\ \/ \* generate_response raises: caught, initial_result returned
                      /\ retry_outcome' = "raised"
                      /\ corrected_data' = result.extracted_data
                   \/ \E retry_response \in Responses :
                         LET retry_data == ParsedResponse[retry_response]
                         IN  /\ corrected_data' =
                                   SelfCorrectResult(result.extracted_data, retry_data)
                             /\ retry_outcome' =
                                   IF retry_data.kind = "none" THEN "unparsed"
                                   ELSE IF ~Truthy(retry_data) THEN "falsy"
                                   ELSE "data"
    /\ UNCHANGED <<validate, use_fallback, FHIR_AVAILABLE, model, oracle, result,
                   total_invalid, revalidation_results, final_data, validate_calls,
                   lookup_calls, initial_outcome, initial_count, response, srvVars, fnVars>>

\* mutant of AfterReValidation: max_retries honoured as another correction round
AfterReValidation_Retry(still_invalid) ==
    IF still_invalid > 0 THEN "SELF_CORRECTING" ELSE "DONE"

\* `if still_invalid_meds + still_invalid_conds > 0`
AfterReValidation(still_invalid) ==
    IF still_invalid > 0 THEN "VECTOR_FALLBACK" ELSE "DONE"

\* the re-validation loops and the check that follows them
ReValidate ==
    /\ pc = "RE_VALIDATING"
    /\ IF corrected_data.kind \notin {"dict", "partial"}
       THEN \* corrected_data.get(...) raises AttributeError
            /\ pc' = "RAISED"
            /\ UNCHANGED <<oracle, result, revalidation_results, validate_calls>>
       ELSE \E o2 \in OracleExtensions(oracle, corrected_data) :
               LET revalidation == ValidateAll(corrected_data, o2, FALSE)
               IN  /\ oracle' = o2
                   /\ revalidation_results' = revalidation
                   /\ validate_calls' = validate_calls + EntityCount(corrected_data)
                   /\ pc' = AfterReValidation(TotalInvalid(revalidation))
                   /\ result' =
                         IF AfterReValidation(TotalInvalid(revalidation)) = "DONE"
                         THEN [result EXCEPT
                                  !.extracted_data = corrected_data,
                                  !.validation_results = revalidation,
                                  !.correction_stages = <<"initial", "self_correct">>]
                         ELSE result
    /\ UNCHANGED <<validate, use_fallback, FHIR_AVAILABLE, model, total_invalid,
                   corrected_data, final_data, generate_calls, lookup_calls,
                   initial_outcome, retry_outcome, initial_count, response, retry_prompt, srvVars, fnVars>>

\* corrected_data is the very dict of result["extracted_data"] when the
\* correction round returned initial_result
CorrectedIsInitial == retry_outcome # "data"

\* fallback_to_vector_db(corrected_data, revalidation_results)
VectorFallback ==
    /\ pc = "VECTOR_FALLBACK"
    /\ LET f == fallback_to_vector_db(corrected_data, revalidation_results)
       IN  /\ corrected_data' = f.data      \* same entity dicts, changed in place
           /\ final_data' = IF f.raised THEN final_data ELSE f.data
           /\ result' = IF CorrectedIsInitial
                        THEN [result EXCEPT !.extracted_data = f.data]
                        ELSE result
           /\ lookup_calls' = lookup_calls + f.lookups
           /\ pc' = IF f.raised THEN "RAISED" ELSE "FINAL_VALIDATING"
    /\ UNCHANGED <<validate, use_fallback, FHIR_AVAILABLE, model, oracle, total_invalid,
                   revalidation_results, generate_calls, validate_calls,
                   initial_outcome, retry_outcome, initial_count, response, retry_prompt, srvVars, fnVars>>

\* mutant of FinalValidate: the success flag follows the final validation
FinalValidate_Strict ==
    /\ pc = "FINAL_VALIDATING"
    /\ \E o2 \in OracleExtensions(oracle, final_data) :
          LET final_validation == ValidateAll(final_data, o2, TRUE)
          IN  /\ oracle' = o2
              /\ validate_calls' = validate_calls + EntityCount(final_data)
              /\ result' = [result EXCEPT
                               !.extracted_data = final_data,
                               !.validation_results = final_validation,
                               !.success = (TotalInvalid(final_validation) = 0),
                               !.correction_stages = <<"initial", "self_correct", "vector_db">>]
    /\ pc' = "DONE"
    /\ UNCHANGED <<validate, use_fallback, FHIR_AVAILABLE, model, total_invalid,
                   corrected_data, revalidation_results, final_data, generate_calls,
                   lookup_calls, initial_outcome, retry_outcome, initial_count, response, retry_prompt, srvVars, fnVars>>

\* the final validation loops and the three assignments to result
FinalValidate ==
    /\ pc = "FINAL_VALIDATING"
    /\ \E o2 \in OracleExtensions(oracle, final_data) :
          LET final_validation == ValidateAll(final_data, o2, TRUE)
          IN  /\ oracle' = o2
              /\ validate_calls' = validate_calls + EntityCount(final_data)
              /\ result' = [result EXCEPT
                               !.extracted_data = final_data,
                               !.validation_results = final_validation,
                               !.correction_stages = <<"initial", "self_correct", "vector_db">>]
    /\ pc' = "DONE"
    /\ UNCHANGED <<validate, use_fallback, FHIR_AVAILABLE, model, total_invalid,
                   corrected_data, revalidation_results, final_data, generate_calls,
                   lookup_calls, initial_outcome, retry_outcome, initial_count, response, retry_prompt, srvVars, fnVars>>

\* result.get("correction_stages", ["initial"]) in process_medical_text
SurfacedStages(r) ==
    IF r.correction_stages = NoStages THEN <<"initial">> ELSE r.correction_stages

\* process_medical_text: the response built from the result, or the 500 of
\* `except Exception`
Respond ==
    /\ pc \in {"DONE", "RAISED"}
    /\ response' =
          IF pc = "DONE"
          THEN [status |-> 200, success |-> result.success,
                correction_stages |-> SurfacedStages(result),
                errors |-> IF ~result.success THEN result.errors ELSE <<>>]
          ELSE [status |-> 500, success |-> FALSE, correction_stages |-> NoStages,
                errors |-> <<>>]
    /\ pc' = "RESPONDED"
    /\ UNCHANGED <<validate, use_fallback, FHIR_AVAILABLE, model, oracle, result,
                   total_invalid, corrected_data, revalidation_results, final_data,
                   generate_calls, validate_calls, lookup_calls, initial_outcome,
                   retry_outcome, initial_count, retry_prompt, srvVars, fnVars>>

Next ==
    \/ InitialExtraction
    \/ InitialValidation
    \/ SelfCorrect
    \/ ReValidate
    \/ VectorFallback
    \/ FinalValidate
    \/ Respond

Spec == Init /\ [][Next]_vars

(***************************************************************************)
(* The server: request threads around the process-wide handle _pipeline.   *)
(* get_pipeline takes no lock, so its statements interleave freely between *)
(* threads.  What a thread does with a handle after the view got one is    *)
(* the orchestrator of Spec; here it is the single step Generate.          *)
(***************************************************************************)
RequestKinds == {"process", "health", "model_info"}

\* a request reaches one of the three views
ReceiveRequest(t) ==
    /\ tpc[t] = "idle"
    /\ served[t] < MaxRequests
    /\ \E kind \in RequestKinds, ok \in BOOLEAN :
          /\ (kind # "process" => ok)
          /\ request' = [request EXCEPT ![t] = [kind |-> kind, transcript_ok |-> ok]]
          /\ tpc' = [tpc EXCEPT ![t] = IF kind = "process" THEN "check_input"
                                       ELSE "get_pipeline"]
    /\ arrived_during_load' =
          [arrived_during_load EXCEPT ![t] = \E u \in Threads : tpc[u] = "load_model"]
    /\ pipeline' = [pipeline EXCEPT ![t] = NoHandle]
    /\ loading' = [loading EXCEPT ![t] = NoHandle]
    /\ UNCHANGED <<_pipeline, handles, served, status, completions, runVars, fnVars>>

\* mutant of CheckInput: the handle is acquired before the input is judged
CheckInput_AfterPipeline(t) ==
    /\ tpc[t] = "check_input"
    /\ tpc' = [tpc EXCEPT ![t] = "get_pipeline"]
    /\ UNCHANGED <<_pipeline, handles, request, pipeline, loading, served, status,
                   arrived_during_load, completions, runVars, fnVars>>

\* process_medical_text: body and transcript checks, 400 on a bad request
CheckInput(t) ==
    /\ tpc[t] = "check_input"
    /\ IF request[t].transcript_ok
       THEN /\ tpc' = [tpc EXCEPT ![t] = "get_pipeline"]
            /\ UNCHANGED <<served, status>>
       ELSE /\ tpc' = [tpc EXCEPT ![t] = "idle"]
            /\ status' = [status EXCEPT ![t] = 400]
            /\ served' = [served EXCEPT ![t] = @ + 1]
    /\ UNCHANGED <<_pipeline, handles, request, pipeline, loading,
                   arrived_during_load, completions, runVars, fnVars>>

\* get_pipeline: `if _pipeline is None:` and, when it is not, `return _pipeline`
GetPipelineCheck(t) ==
    /\ tpc[t] = "get_pipeline"
    /\ IF _pipeline = NoHandle
       THEN /\ tpc' = [tpc EXCEPT ![t] = "construct"]
            /\ UNCHANGED pipeline
       ELSE /\ tpc' = [tpc EXCEPT ![t] = "view"]
            /\ pipeline' = [pipeline EXCEPT ![t] = _pipeline]
    /\ UNCHANGED <<_pipeline, handles, request, loading, served, status,
                   arrived_during_load, completions, runVars, fnVars>>

\* get_pipeline: import and `_pipeline = AdvancedMedGemmaPipeline(...)`, whose
\* __init__ sets self.model = None; an exception makes get_pipeline return None
Construct(t) ==
    /\ tpc[t] = "construct"
    /\ \/ /\ handles' = Append(handles, None)
          /\ _pipeline' = Len(handles) + 1
          /\ tpc' = [tpc EXCEPT ![t] = "call_load"]
          /\ UNCHANGED pipeline
       \/ /\ tpc' = [tpc EXCEPT ![t] = "view"]
          /\ pipeline' = [pipeline EXCEPT ![t] = NoHandle]
          /\ UNCHANGED <<_pipeline, handles>>
    /\ UNCHANGED <<request, loading, served, status, arrived_during_load, completions, runVars, fnVars>>

\* get_pipeline: `_pipeline.load_model()` reads the global and enters load_model
StartLoad(t) ==
    /\ tpc[t] = "call_load"
    /\ loading' = [loading EXCEPT ![t] = _pipeline]
    /\ tpc' = [tpc EXCEPT ![t] = "load_model"]
    /\ UNCHANGED <<_pipeline, handles, request, pipeline, served, status,
                   arrived_during_load, completions, runVars, fnVars>>

\* load_model returns: True with self.model set, or False (MLX missing, or
\* load(...) raised), on which get_pipeline returns None
FinishLoad(t) ==
    /\ tpc[t] = "load_model"
    /\ \/ /\ handles' = [handles EXCEPT ![loading[t]] = "loaded"]
          /\ tpc' = [tpc EXCEPT ![t] = "return_pipeline"]
          /\ UNCHANGED pipeline
       \/ /\ tpc' = [tpc EXCEPT ![t] = "view"]
          /\ pipeline' = [pipeline EXCEPT ![t] = NoHandle]
          /\ UNCHANGED handles
    /\ UNCHANGED <<_pipeline, request, loading, served, status,
                   arrived_during_load, completions, runVars, fnVars>>

\* get_pipeline: the final `return _pipeline`
ReturnPipeline(t) ==
    /\ tpc[t] = "return_pipeline"
    /\ pipeline' = [pipeline EXCEPT ![t] = _pipeline]
    /\ tpc' = [tpc EXCEPT ![t] = "view"]
    /\ UNCHANGED <<_pipeline, handles, request, loading, served, status,
                   arrived_during_load, completions, runVars, fnVars>>

\* the views after get_pipeline(): 503 for `pipeline is None`; health_check
\* and model_info answer 200; process_medical_text goes on to the pipeline
View(t) ==
    /\ tpc[t] = "view"
    /\ IF pipeline[t] = NoHandle
       THEN /\ status' = [status EXCEPT ![t] = 503]
            /\ served' = [served EXCEPT ![t] = @ + 1]
            /\ tpc' = [tpc EXCEPT ![t] = "idle"]
       ELSE IF request[t].kind = "process"
       THEN /\ tpc' = [tpc EXCEPT ![t] = "generate"]
            /\ UNCHANGED <<served, status>>
       ELSE /\ status' = [status EXCEPT ![t] = 200]
            /\ served' = [served EXCEPT ![t] = @ + 1]
            /\ tpc' = [tpc EXCEPT ![t] = "idle"]
    /\ UNCHANGED <<_pipeline, handles, request, pipeline, loading,
                   arrived_during_load, completions, runVars, fnVars>>

\* generate_response on the handle: `if self.model is None: raise RuntimeError`
GenerateRaises(h) == handles[h] = None

\* process_medical_text: the pipeline runs on the handle (generate_response is
\* called; process_transcript turns its RuntimeError into a failure result)
\* and the response is 200 either way
Generate(t) ==
    /\ tpc[t] = "generate"
    /\ completions' = IF GenerateRaises(pipeline[t]) THEN completions ELSE completions + 1
    /\ status' = [status EXCEPT ![t] = 200]
    /\ served' = [served EXCEPT ![t] = @ + 1]
    /\ tpc' = [tpc EXCEPT ![t] = "idle"]
    /\ UNCHANGED <<_pipeline, handles, request, pipeline, loading,
                   arrived_during_load, runVars, fnVars>>

InitSrv ==
    /\ validate = TRUE
    /\ use_fallback = TRUE
    /\ FHIR_AVAILABLE = TRUE
    /\ model = None
    /\ RunInit
    /\ SrvInit
    /\ FnInit

NextSrv ==
    \E t \in Threads :
        \/ ReceiveRequest(t)
        \/ CheckInput(t)
        \/ GetPipelineCheck(t)
        \/ Construct(t)
        \/ StartLoad(t)
        \/ FinishLoad(t)
        \/ ReturnPipeline(t)
        \/ View(t)
        \/ Generate(t)

SpecSrv == InitSrv /\ [][NextSrv]_vars

(***************************************************************************)
(* The input stage of process_medical_text: the request body is parsed,    *)
(* the transcript is read and checked, and the two except clauses turn an  *)
(* exception into a response.  A string is kept as the lengths of its      *)
(* leading whitespace, of the part str.strip() keeps, and of its trailing  *)
(* whitespace.                                                             *)
(***************************************************************************)
\* `if len(transcript) > 10000`
MaxTranscript == 10000

Leads  == {0, 1, MaxTranscript}
Cores  == {0, 1, MaxTranscript - 1, MaxTranscript, MaxTranscript + 1}
Trails == {0, 1}

\* the value under the key "transcript" of a JSON object: no such key, a
\* value that is not a string, or a string
TranscriptFields ==
    {[type |-> ty, lead |-> 0, core |-> 0, trail |-> 0] :
        ty \in {"absent", "null", "number", "list", "object"}} \cup
    {[type |-> "str", lead |-> l, core |-> c, trail |-> r] :
        l \in Leads, c \in Cores, r \in Trails}

NoTranscript == [type |-> "absent", lead |-> 0, core |-> 0, trail |-> 0]

\* request.body: bytes that are not JSON text, JSON text that is not valid,
\* a JSON value that is not an object, or a JSON object
Bodies ==
    {[kind |-> k, transcript |-> NoTranscript, validate_fhir |-> TRUE, use_fallback |-> TRUE] :
        k \in {"bad_utf8", "invalid_json", "list", "string", "number", "null", "bool"}} \cup
    {[kind |-> "object", transcript |-> t, validate_fhir |-> v, use_fallback |-> f] :
        t \in TranscriptFields, v \in BOOLEAN, f \in BOOLEAN}

\* len() of a string
StrLen(t) == t.lead + t.core + t.trail

\* str.strip()
Strip(t) == [t EXCEPT !.lead = 0, !.trail = 0]

\* json.loads(request.body): the exception it raises, or None
JsonLoadsRaises(b) ==
    CASE b.kind = "invalid_json" -> "JSONDecodeError"
      [] b.kind = "bad_utf8"     -> "UnicodeDecodeError"
      [] OTHER                   -> None

\* body.get("transcript", "").strip(): the exception it raises, or None
GetStripRaises(b) ==
    IF b.kind # "object" THEN "AttributeError"
    ELSE IF b.transcript.type \notin {"absent", "str"} THEN "AttributeError"
    ELSE None

\* body.get("transcript", "").strip() when it does not raise
StrippedTranscript(b) == Strip(b.transcript)

Answer400(msg) == [NoAnswer EXCEPT !.stage = "answered", !.status = 400, !.error = msg]

\* `len(transcript) > 10000`
TooLong(transcript) == StrLen(transcript) > MaxTranscript

\* process_medical_text from `try:` to `pipeline = get_pipeline()`, with the
\* two except clauses
process_medical_text_input(b) ==
    IF JsonLoadsRaises(b) = "JSONDecodeError"
    THEN Answer400("Invalid JSON in request body")
    ELSE IF JsonLoadsRaises(b) # None \/ GetStripRaises(b) # None
    THEN [NoAnswer EXCEPT !.stage = "answered", !.status = 500,
                          !.error = "Internal server error"]
    ELSE LET transcript == StrippedTranscript(b)
         IN  IF StrLen(transcript) = 0
             THEN Answer400("Missing 'transcript' in request body")
             ELSE IF TooLong(transcript)
             THEN Answer400("Transcript too long (max 10,000 characters)")
             ELSE [NoAnswer EXCEPT !.stage = "accepted",
                                   !.validate_fhir = b.validate_fhir,
                                   !.use_fallback = b.use_fallback]

\* the view handles the request body up to the call of get_pipeline
InputStage ==
    /\ answer.stage = "waiting"
    /\ answer' = process_medical_text_input(body)
    /\ UNCHANGED <<body, lookups, vector_db, raw_text, parsed, runVars, srvVars>>

InitInput ==
    /\ validate = TRUE
    /\ use_fallback = TRUE
    /\ FHIR_AVAILABLE = TRUE
    /\ model = None
    /\ RunInit
    /\ SrvInit
    /\ body \in Bodies
    /\ answer = NoAnswer
    /\ lookups = <<>>
    /\ vector_db = LoadedStores
    /\ raw_text = NoText
    /\ parsed = NotParsed

NextInput == InputStage

SpecInput == InitInput /\ [][NextInput]_vars

(***************************************************************************)
(* The code stores on their own: lookups with any term and threshold, one  *)
(* after the other, on the MedicalCodeVectorDB object of the pipeline.     *)
(***************************************************************************)
Categories == {"icd10", "rxnorm"}

\* thresholds as fractions: 0, 0.5 and the default 0.7
Thresholds == {<<0, 1>>, <<1, 2>>, DefaultThreshold}

\* mutant of CodesAfterSearch: the entry returned is dropped from the store
CodesAfterSearch_Evicting(codes, best_match) ==
    SelectSeq(codes, LAMBDA entry : entry[1] # best_match)

\* self.icd10_codes / self.rxnorm_codes after a search: the loops only read
\* the dict
CodesAfterSearch(codes, best_match) == codes

\* one call of search_icd10 or search_rxnorm
Lookup ==
    /\ Len(lookups) < MaxLookups
    /\ \E category \in Categories, term \in LookupTerms, threshold \in Thresholds :
          LET locals == IF category = "icd10"
                        THEN Icd10Best(vector_db, term, threshold)
                        ELSE RxnormBest(vector_db, term, threshold)
          IN  /\ lookups' = Append(lookups,
                                [category |-> category, term |-> term,
                                 threshold |-> threshold,
                                 result |-> locals.best_match,
                                 score |-> locals.best_score])
              /\ vector_db' =
                    IF category = "icd10"
                    THEN [vector_db EXCEPT !.icd10_codes =
                             CodesAfterSearch(@, locals.best_match)]
                    ELSE [vector_db EXCEPT !.rxnorm_codes =
                             CodesAfterSearch(@, locals.best_match)]
    /\ UNCHANGED <<body, answer, raw_text, parsed, runVars, srvVars>>

InitLookup ==
    /\ validate = TRUE
    /\ use_fallback = TRUE
    /\ FHIR_AVAILABLE = TRUE
    /\ model = None
    /\ RunInit
    /\ SrvInit
    /\ FnInit

NextLookup == Lookup

SpecLookup == InitLookup /\ [][NextLookup]_vars

(***************************************************************************)
(* The parser on its own: extract_json_from_response applied to model      *)
(* responses of every shape, a JSON document bare, fenced, or in prose.    *)
(***************************************************************************)
OneMedication ==
    [kind |-> "dict",
     medications |-> <<[name |-> "Lisinopril", code |-> "XX", source |-> Absent]>>,
     conditions |-> <<>>]

OneCondition ==
    [kind |-> "dict", medications |-> <<>>,
     conditions |-> <<[name |-> "hypertension", code |-> "I10", source |-> Absent]>>]

\* what the model writes where a JSON document is expected: the documents
\* of every kind, one with a remark in front, and three that are not JSON
ParseDocs ==
    {Dumps(OneMedication), Dumps(OneCondition), Dumps(ListJson), Dumps(EmptyJson),
     Dumps(NoData), Dumps(ScalarJson), "{\"medications\": []}",
     ListOfOne(OneMedication), "Result: " \o Dumps(OneMedication),
     "{\"medications\": [", "{oops}", "not json"}

Wrappers ==
    {"bare", "padded", "labeled", "unlabeled", "prose", "labeled in prose",
     "unclosed", "upper-case label"}

\* a response of the model around one document
Wrap(wrapper, doc) ==
    CASE wrapper = "bare"      -> doc
      [] wrapper = "padded"    -> "\n" \o doc \o "\n"
      [] wrapper = "labeled"   -> Fence \o "json\n" \o doc \o "\n" \o Fence
      [] wrapper = "unlabeled" -> Fence \o "\n" \o doc \o "\n" \o Fence
      [] wrapper = "prose"     -> "Here is the JSON: " \o doc \o " Done."
      [] wrapper = "labeled in prose" ->
            "Sure.\n" \o Fence \o "json\n" \o doc \o "\n" \o Fence \o "\nBye."
      [] wrapper = "unclosed"  -> Fence \o "json\n" \o doc \o Fence
      [] wrapper = "upper-case label" -> Fence \o "JSON\n" \o doc \o "\n" \o Fence

\* responses with two documents, and with none
TwoBlocks ==
    {Wrap("unlabeled", Dumps(OneMedication)) \o "\n" \o Wrap("labeled", Dumps(OneCondition)),
     Wrap("labeled", "{oops}") \o "\n" \o Wrap("unlabeled", Dumps(OneCondition)),
     Dumps(OneMedication) \o " and " \o Dumps(OneCondition),
     "I cannot help with that.",
     ""}

ParseTexts == {Wrap(w, d) : w \in Wrappers, d \in ParseDocs} \cup TwoBlocks

\* one call of extract_json_from_response
Parse ==
    /\ ~parsed.called
    /\ parsed' = [called |-> TRUE, value |-> extract_json_from_response(raw_text)]
    /\ UNCHANGED <<body, answer, lookups, vector_db, raw_text, runVars, srvVars>>

InitParse ==
    /\ validate = TRUE
    /\ use_fallback = TRUE
    /\ FHIR_AVAILABLE = TRUE
    /\ model = None
    /\ RunInit
    /\ SrvInit
    /\ body = NoBody
    /\ answer = NoAnswer
    /\ lookups = <<>>
    /\ vector_db = LoadedStores
    /\ raw_text \in ParseTexts
    /\ parsed = NotParsed

NextParse == Parse

SpecParse == InitParse /\ [][NextParse]_vars

(***************************************************************************)
(* Properties of one orchestrator run (Spec).                              *)
(***************************************************************************)
InitialStage   == <<"initial">>
CorrectedStage == <<"initial", "self_correct">>
FallbackStage  == <<"initial", "self_correct", "vector_db">>

\* the orchestrator returned a result / an exception left it
Returned == pc = "DONE" \/ (pc = "RESPONDED" /\ response.status = 200)
Escaped  == pc = "RAISED" \/ (pc = "RESPONDED" /\ response.status = 500)

\* the initial validation of an orchestrated run is over
InitiallyValidated ==
    /\ use_fallback /\ validate
    /\ initial_outcome = "ok"
    /\ pc \notin {"INITIAL", "VALIDATING"}

\* C1: a run of process_transcript_with_fallback whose initial parse succeeds
\* and whose initial validation finds no invalid entity has made exactly one
\* generation call and ends with correction_stages [initial], as the response
\* of POST /process shows it.
C1_CleanRunIsInitialOnly ==
    (InitiallyValidated /\ total_invalid = 0) =>
        /\ generate_calls = 1
        /\ Returned
        /\ result.correction_stages \in {NoStages, InitialStage}
        /\ pc = "RESPONDED" => response.correction_stages = InitialStage

C1_Witness ==
    /\ InitiallyValidated /\ FHIR_AVAILABLE
    /\ total_invalid = 0
    /\ initial_count = MaxEntities
    /\ pc = "RESPONDED"
    /\ response.correction_stages = InitialStage

\* C2: when the initial model output holds no parsable JSON, the run is over at
\* once with success false and a non-empty errors list, after one generation
\* call, no validator call and no store lookup.
C2_ParseFailureEndsRun ==
    initial_outcome = "unparsed" =>
        /\ Returned
        /\ ~result.success
        /\ result.errors # <<>>
        /\ generate_calls = 1
        /\ validate_calls = 0
        /\ lookup_calls = 0
        /\ pc = "RESPONDED" => (~response.success /\ response.errors # <<>>)

C2_Witness ==
    /\ initial_outcome = "unparsed"
    /\ use_fallback /\ validate
    /\ pc = "RESPONDED"
    /\ response.errors = <<"Failed to extract valid JSON from response">>

\* C3 (as claimed): every orchestrator run ends in DONE - no exception leaves
\* it - with at most two generation calls.
C3_EveryRunReachesDone ==
    use_fallback => (~Escaped /\ generate_calls <= 2)

\* the part of C3 that does not depend on how the run ends: the stages only
\* move forward, and there are at most two generation calls
Rank(p) ==
    CASE p = "INITIAL" -> 1
      [] p = "VALIDATING" -> 2
      [] p = "SELF_CORRECTING" -> 3
      [] p = "RE_VALIDATING" -> 4
      [] p = "VECTOR_FALLBACK" -> 5
      [] p = "FINAL_VALIDATING" -> 6
      [] p \in {"DONE", "RAISED"} -> 7
      [] p = "RESPONDED" -> 8

ForwardOnly == [][Rank(pc') > Rank(pc)]_vars

AtMostTwoGenerations == generate_calls <= 2

\* the larger entity count of the run: the initial extraction, or the data
\* after the correction round
LargestCount ==
    IF EntityCount(corrected_data) > initial_count
    THEN EntityCount(corrected_data) ELSE initial_count

\* C4 (as claimed): the validator is called at most 2 x N times in a run.
C4_AtMostTwoPasses == validate_calls <= 2 * LargestCount

\* C4 (amended): the validator is called at most N0 + 2 x N1 times, N0 the
\* entities of the initial extraction and N1 those of the data after the
\* correction round - three passes, so 3 x N when the count stays N.
C4_AtMostThreePasses ==
    /\ validate_calls <= initial_count + 2 * EntityCount(corrected_data)
    /\ validate_calls <= 3 * LargestCount

C4_Witness ==
    /\ Returned
    /\ result.correction_stages = FallbackStage
    /\ initial_count = MaxEntities
    /\ validate_calls = 3 * initial_count

\* an entity of this name and category was rejected by the validator in this run
FailedBefore(cat, name) ==
    \E k \in DOMAIN oracle : k[1] = cat /\ k[2] = name /\ ~oracle[k]

\* C5 (as claimed): in a run that ends after the correction round, the
\* entities that round fixed carry source "corrected".
C5_CorrectedEntitiesAreTagged ==
    (Returned /\ result.correction_stages = CorrectedStage /\ retry_outcome = "data") =>
        /\ \A i \in DOMAIN result.extracted_data.medications :
              FailedBefore("medication", result.extracted_data.medications[i].name)
                  => result.extracted_data.medications[i].source = "corrected"
        /\ \A i \in DOMAIN result.extracted_data.conditions :
              FailedBefore("condition", result.extracted_data.conditions[i].name)
                  => result.extracted_data.conditions[i].source = "corrected"

\* C6: after the fallback stage, every entity that re-validation found invalid
\* and whose name the matching store knows holds the looked-up code and the
\* fallback source tag, in the result and in the final validation record at
\* the same position.
C6_FallbackHitIsApplied ==
    (Returned /\ result.correction_stages = FallbackStage) =>
        /\ \A i \in DOMAIN revalidation_results.medications :
              LET name == revalidation_results.medications[i].name
              IN  (/\ ~revalidation_results.medications[i].valid
                   /\ name # None
                   /\ RxnormTable[name] # None)
                  => /\ result.extracted_data.medications[i].name = name
                     /\ result.extracted_data.medications[i].code =
                           RxnormTable[name]
                     /\ result.extracted_data.medications[i].source = "vector_db_fallback"
                     /\ result.validation_results.medications[i].source = "vector_db_fallback"
        /\ \A i \in DOMAIN revalidation_results.conditions :
              LET name == revalidation_results.conditions[i].name
              IN  (/\ ~revalidation_results.conditions[i].valid
                   /\ name # None
                   /\ Icd10Table[name] # None)
                  => /\ result.extracted_data.conditions[i].name = name
                     /\ result.extracted_data.conditions[i].code =
                           Icd10Table[name]
                     /\ result.extracted_data.conditions[i].source = "vector_db_fallback"
                     /\ result.validation_results.conditions[i].source = "vector_db_fallback"

C6_Witness ==
    /\ Returned
    /\ result.correction_stages = FallbackStage
    /\ Len(result.extracted_data.medications) = 1
    /\ Len(result.extracted_data.conditions) = 1
    /\ ~revalidation_results.medications[1].valid
    /\ ~revalidation_results.conditions[1].valid
    /\ result.extracted_data.medications[1] =
          [name |-> "Lisinopril", code |-> "314076", source |-> "vector_db_fallback"]
    /\ result.extracted_data.conditions[1] =
          [name |-> "hypertension", code |-> "I10", source |-> "vector_db_fallback"]

\* C7: when the correction round's generation call raises or its output holds
\* no parsable JSON, the data that goes on to re-validation is the
\* pre-correction data, the run goes on, success stays true and no exception
\* leaves the orchestrator.
C7_FailedCorrectionIsNoOp ==
    retry_outcome \in {"raised", "unparsed"} =>
        /\ corrected_data = result.extracted_data
        /\ result.success
        /\ result.errors = <<>>
        /\ ~Escaped
        /\ pc \in {"RE_VALIDATING", "VECTOR_FALLBACK", "FINAL_VALIDATING", "DONE", "RESPONDED"}

C7_Witness ==
    /\ retry_outcome = "unparsed"
    /\ pc = "RE_VALIDATING"
    /\ initial_count = MaxEntities
    /\ corrected_data = result.extracted_data

\* record i of the validation list describes entity i of the entity list
Corresponds(entities, records) ==
    /\ Len(records) = Len(entities)
    /\ \A i \in DOMAIN entities : records[i].name = entities[i].name

\* C8: whenever a validation has been made - initial, after self-correction,
\* after fallback - its medication and condition lists are as long as the
\* entity lists they were made from and agree with them name by name.
C8_ValidationFollowsEntities ==
    /\ result.validation_results.kind = "results" =>
          /\ Corresponds(result.extracted_data.medications,
                         result.validation_results.medications)
          /\ Corresponds(result.extracted_data.conditions,
                         result.validation_results.conditions)
    /\ revalidation_results.kind = "results" =>
          /\ Corresponds(corrected_data.medications, revalidation_results.medications)
          /\ Corresponds(corrected_data.conditions, revalidation_results.conditions)

C8_Witness ==
    /\ Returned
    /\ result.correction_stages = FallbackStage
    /\ Len(result.extracted_data.medications) = 2
    /\ result.validation_results.medications[1].name = "Lisinopril"
    /\ result.validation_results.medications[2].name = "hypertension"
    /\ ~revalidation_results.medications[1].valid
    /\ revalidation_results.medications[2].valid

(***************************************************************************)
(* Properties of the server process (SpecSrv).                             *)
(***************************************************************************)
\* C9 (as claimed): at most one load_model() call is in flight at any time.
C9_SingleLoadInFlight ==
    Cardinality({t \in Threads : tpc[t] = "load_model"}) <= 1

\* C10 (as claimed): a POST /process request that arrived while a load was
\* running never reaches generate_response on a handle whose model is not
\* loaded.
C10_NoGenerationBeforeLoad ==
    \A t \in Threads :
        (tpc[t] = "generate" /\ arrived_during_load[t]) => ~GenerateRaises(pipeline[t])

\* some load_model() call has returned True
SomeLoadSucceeded == \E h \in DOMAIN handles : handles[h] = "loaded"

\* no thread is between the `_pipeline is None` check and the return of
\* load_model(): every load attempt made so far has ended
NoLoadInFlight ==
    \A u \in Threads : tpc[u] \notin {"construct", "call_load", "load_model"}

\* C11 (as claimed): a POST /process request with a valid transcript that is
\* handled when every load attempt so far has failed is answered 503: it
\* never gets past the `pipeline is None` check of the view to the pipeline
\* call, whose answer is 200.
C11_UnloadedIsAnswered503 ==
    \A t \in Threads :
        (request[t].kind = "process" /\ tpc[t] = "generate" /\ NoLoadInFlight)
            => SomeLoadSucceeded

\* C12 (as claimed): GET /health answers healthy (200) only if a load has
\* succeeded; after a load attempt that failed it answers 503.
C12_HealthyOnlyWhenLoaded ==
    \A t \in Threads :
        (request[t].kind = "health" /\ tpc[t] = "idle" /\ status[t] = 200
            /\ NoLoadInFlight)
            => SomeLoadSucceeded

\* the transcript of the request, when the body is an object holding a string
IsStringTranscript == body.kind = "object" /\ body.transcript.type = "str"

\* C13 (as claimed): a transcript of exactly 10,000 characters is accepted
\* and one of 10,001 characters or more is rejected with status 400,
\* whatever its characters are (leading and trailing whitespace included).
C13_LengthBoundary ==
    (answer.stage # "waiting" /\ IsStringTranscript) =>
        /\ (StrLen(body.transcript) = MaxTranscript => answer.stage = "accepted")
        /\ (StrLen(body.transcript) > MaxTranscript => answer.status = 400)

\* the request body is malformed: not JSON, not an object, or its
\* transcript is not a string
Malformed ==
    \/ body.kind # "object"
    \/ body.transcript.type \notin {"absent", "str"}

\* the transcript is missing, empty or whitespace only
MissingOrEmpty ==
    /\ body.kind = "object"
    /\ \/ body.transcript.type = "absent"
       \/ body.transcript.type = "str" /\ body.transcript.core = 0

\* C14 (as claimed): a request whose transcript is missing, empty or
\* whitespace only, and every malformed request body, is answered 400.
C14_BadRequestIs400 ==
    (answer.stage # "waiting" /\ (Malformed \/ MissingOrEmpty)) => answer.status = 400

(***************************************************************************)
(* Properties of the code stores (SpecLookup).                             *)
(***************************************************************************)
\* the store a category is looked up in, as loaded
StoreOf(category) ==
    IF category = "icd10" THEN LoadedStores.icd10_codes ELSE LoadedStores.rxnorm_codes

\* |words(term) \cap words(description)| / |words(term)|
Ratio(term, description) ==
    OverlapScore(Words(Lower(term)), Words(Lower(description)))

HasWords(term) == Words(Lower(term)) # {}

\* the lowercased term is a literal substring of the lowercased description
SubstringOf(term, description) == IsSubstring(Lower(term), Lower(description))

\* the code of the first entry of the store, in insertion order, whose score
\* is highest among the entries admitted; None when none is admitted
FirstBest(codes, admitted, Score(_)) ==
    LET tops == {k \in admitted : \A j \in admitted : ScoreGE(Score(k), Score(j))}
    IN  IF admitted = {} THEN None
        ELSE codes[CHOOSE k \in tops : \A j \in tops : k <= j][1]

\* the result the claim gives a lookup: the token-overlap ratio for both
\* stores, every entry at or above the threshold admitted
ClaimedResult(l) ==
    LET codes    == StoreOf(l.category)
        Score(k) == Ratio(l.term, codes[k][2])
    IN  FirstBest(codes, {k \in DOMAIN codes : ScoreGE(Score(k), l.threshold)}, Score)

\* C15 (as claimed): for each store a lookup returns the code with the
\* highest token-overlap ratio among the entries whose ratio is >= threshold,
\* the first in insertion order among equals.
C15_HighestRatioFirstSeen ==
    \A i \in DOMAIN lookups :
        HasWords(lookups[i].term) => lookups[i].result = ClaimedResult(lookups[i])

\* the score per store: the ratio for the diagnosis store; for the
\* medication store 1.0 when the term is a substring of the description and
\* the ratio otherwise
StoreScore(category, term, description) ==
    IF category = "rxnorm" /\ SubstringOf(term, description) THEN <<1, 1>>
    ELSE Ratio(term, description)

\* an entry gets a score at all: the term has a word, or the shortcut applies
Scored(category, term, description) ==
    HasWords(term) \/ (category = "rxnorm" /\ SubstringOf(term, description))

AmendedResult(l) ==
    LET codes    == StoreOf(l.category)
        Score(k) == StoreScore(l.category, l.term, codes[k][2])
    IN  FirstBest(codes,
                  {k \in DOMAIN codes :
                      /\ Scored(l.category, l.term, codes[k][2])
                      /\ ScoreGT(Score(k), <<0, 1>>)
                      /\ ScoreGE(Score(k), l.threshold)},
                  Score)

\* C15 (amended): a lookup returns the code of the entry with the highest
\* score among the entries whose score is > 0 and >= threshold, the first in
\* insertion order among equals, and nothing when there is no such entry;
\* the score is the token-overlap ratio in the diagnosis store, and in the
\* medication store 1.0 when the lowercased term is a substring of the
\* lowercased description and the ratio otherwise.
C15_HighestScoreFirstSeen ==
    \A i \in DOMAIN lookups : lookups[i].result = AmendedResult(lookups[i])

\* a later entry beats an earlier one that is also at or above the threshold,
\* and among three entries of equal score the first is returned
C15_Witness ==
    /\ Len(lookups) = 2
    /\ lookups[1] = [category |-> "rxnorm", term |-> "Lisinopril 20",
                     threshold |-> <<1, 2>>, result |-> "314077", score |-> <<1, 1>>]
    /\ lookups[2] = [category |-> "icd10", term |-> "chronic",
                     threshold |-> DefaultThreshold, result |-> "N18.3",
                     score |-> <<1, 1>>]

\* the score of section 4.1: 1.0 for a substring, the ratio otherwise
DocumentedScore(term, description) ==
    IF SubstringOf(term, description) THEN <<1, 1>> ELSE Ratio(term, description)

\* no entry of the store reaches the threshold
NoneClears(l) ==
    \A k \in DOMAIN StoreOf(l.category) :
        ~ScoreGE(DocumentedScore(l.term, StoreOf(l.category)[k][2]), l.threshold)

\* C16 (as claimed): in both stores a lookup returns nothing when the term
\* has no word (empty or whitespace only) and when no entry scores at or
\* above the threshold.
C16_NothingForEmptyTerm ==
    \A i \in DOMAIN lookups :
        (~HasWords(lookups[i].term) \/ NoneClears(lookups[i]))
            => lookups[i].result = None

\* the entries whose description holds the term as a substring
Containing(l) ==
    {k \in DOMAIN StoreOf(l.category) : SubstringOf(l.term, StoreOf(l.category)[k][2])}

\* C17 (as claimed): in either store, when the lowercased term (one with a
\* word in it) is a substring of an entry's lowercased description, the
\* lookup scores 1.0 and returns the code of such an entry, for every
\* threshold <= 1.0.
C17_SubstringScoresOne ==
    \A i \in DOMAIN lookups :
        LET l == lookups[i]
        IN  (HasWords(l.term) /\ Containing(l) # {} /\ ScoreGE(<<1, 1>>, l.threshold))
                => /\ l.score = <<1, 1>>
                   /\ l.result \in {StoreOf(l.category)[k][1] : k \in Containing(l)}

\* C18: two lookups with the same category, term and threshold return the
\* same result (and score) whatever was looked up in between, and the
\* stores stay as loaded.
C18_LookupIsPure ==
    /\ vector_db = LoadedStores
    /\ \A i, j \in DOMAIN lookups :
          (/\ lookups[i].category = lookups[j].category
           /\ lookups[i].term = lookups[j].term
           /\ lookups[i].threshold = lookups[j].threshold)
              => /\ lookups[i].result = lookups[j].result
                 /\ lookups[i].score = lookups[j].score

\* the same successful lookup made twice in a row
C18_Witness ==
    /\ Len(lookups) = 2
    /\ lookups[1].category = "rxnorm"
    /\ lookups[1].term = "lisinopril"
    /\ lookups[1].result = "314076"
    /\ lookups[2] = lookups[1]

(***************************************************************************)
(* Properties of the parser (SpecParse).                                   *)
(***************************************************************************)
\* the places where pat stands in text
Occurrences(pat, text) ==
    {i \in 1..(Len(text) - Len(pat) + 1) : SubSeq(text, i, i + Len(pat) - 1) = pat}

Least(S) == CHOOSE i \in S : \A k \in S : i <= k

Greatest(S) == CHOOSE i \in S : \A k \in S : i >= k

NoVariant == [matches |-> FALSE, content |-> ""]

\* the content of a code fence: what stands between the first opener that is
\* followed by a closing fence and the first closing fence after it
FenceContent(opener, text) ==
    LET closing == Occurrences("\n" \o Fence, text)
        opening == {i \in Occurrences(opener, text) :
                       \E k \in closing : k >= i + Len(opener)}
    IN  IF opening = {} THEN NoVariant
        ELSE LET i == Least(opening)
                 k == Least({c \in closing : c >= i + Len(opener)})
             IN  [matches |-> TRUE, content |-> SubSeq(text, i + Len(opener), k - 1)]

\* the brace-delimited span: from the first opening brace to the last
\* closing brace behind it
BraceSpan(text) ==
    LET opening == Occurrences("{", text)
        closing == Occurrences("}", text)
    IN  IF opening = {} \/ closing = {} \/ Greatest(closing) < Least(opening)
        THEN NoVariant
        ELSE [matches |-> TRUE,
              content |-> SubSeq(text, Least(opening), Greatest(closing))]

\* the four variants of the claim, in its order
Variants(text) ==
    <<FenceContent(Fence \o "json\n", text),
      FenceContent(Fence \o "\n", text),
      BraceSpan(text),
      [matches |-> TRUE, content |-> text]>>

\* variant n matches and its content parses
Succeeds(text, n) ==
    Variants(text)[n].matches /\ json_loads(Variants(text)[n].content).ok

\* the result of the first variant that matches and parses; nothing when all
\* four fail
FirstSuccess(text) ==
    LET good == {n \in 1..4 : Succeeds(text, n)}
    IN  IF good = {} THEN NoData
        ELSE json_loads(Variants(text)[Least(good)].content).value

C20_ParsedValueConforms ==
    (parsed.called /\ Truthy(parsed.value)) => parsed.value.kind = "dict"

(***************************************************************************)
(* Properties of the validator adapter and of the stages around it (Spec). *)
(***************************************************************************)
\* the records of a validation pass say, entity by entity and in list order,
\* what the library said: valid with no error, or invalid with the message of
\* the exception it raised
RecordsVerdicts(cat, entities, records) ==
    /\ Len(records) = Len(entities)
    /\ \A i \in DOMAIN entities :
          /\ records[i].valid = (FHIR_AVAILABLE => oracle[Key(cat, entities[i])])
          /\ records[i].valid <=> (records[i].error = None)

RecordsAllVerdicts(d, v) ==
    /\ RecordsVerdicts("medication", d.medications, v.medications)
    /\ RecordsVerdicts("condition", d.conditions, v.conditions)

\* the data the validation held by result was made from is still as it was
ResultValidationIsCurrent ==
    /\ result.validation_results.kind = "results"
    /\ Returned \/ pc \in {"SELF_CORRECTING", "RE_VALIDATING", "VECTOR_FALLBACK"}

\* a validation pass over entity dicts ends in the next stage, never in an
\* exception
ValidationPassReturns ==
    /\ pc \in {"VALIDATING", "FINAL_VALIDATING"} => pc' # "RAISED"
    /\ (pc = "RE_VALIDATING" /\ corrected_data.kind \in {"dict", "partial"}) => pc' # "RAISED"

\* C21: validate_fhir_medication and validate_fhir_condition never raise: an
\* entity the library raises for is recorded as invalid with the exception's
\* message, the pass goes on with the entities after it, and the pass itself
\* ends in the next stage.
C21_ValidatorNeverRaises ==
    /\ [](ResultValidationIsCurrent =>
            RecordsAllVerdicts(result.extracted_data, result.validation_results))
    /\ [](pc = "VECTOR_FALLBACK" =>
            RecordsAllVerdicts(corrected_data, revalidation_results))
    /\ [][ValidationPassReturns]_vars

C21_Witness ==
    /\ pc = "SELF_CORRECTING"
    /\ Len(result.extracted_data.conditions) = 2
    /\ ~oracle[Key("condition", result.extracted_data.conditions[1])]
    /\ oracle[Key("condition", result.extracted_data.conditions[2])]
    /\ result.validation_results.conditions[1].error = "validation error"
    /\ result.validation_results.conditions[2].valid

\* every record of a validation pass is (valid, no error)
AllValid(v) ==
    /\ \A i \in DOMAIN v.medications :
          v.medications[i].valid /\ v.medications[i].error = None
    /\ \A i \in DOMAIN v.conditions :
          v.conditions[i].valid /\ v.conditions[i].error = None

\* C22: when the FHIR library is not installed both validators answer
\* (True, None) for every entity, so a run whose initial parse gave the
\* structured data makes one generation call, never enters self-correction or
\* fallback, and ends with correction_stages [initial] as the response of
\* POST /process shows it.
C22_AbsentLibraryNeverBlocks ==
    (~FHIR_AVAILABLE /\ initial_outcome = "ok") =>
        /\ generate_calls = 1
        /\ lookup_calls = 0
        /\ pc \in {"VALIDATING", "DONE", "RESPONDED"}
        /\ ~Escaped
        /\ retry_outcome = "none"
        /\ AllValid(result.validation_results)
        /\ SurfacedStages(result) = InitialStage
        /\ pc = "RESPONDED" =>
              (response.success /\ response.correction_stages = InitialStage)

C22_Witness ==
    /\ ~FHIR_AVAILABLE /\ validate /\ use_fallback
    /\ pc = "RESPONDED"
    /\ initial_count = MaxEntities
    /\ validate_calls = MaxEntities
    /\ Len(result.validation_results.medications) = 1
    /\ Len(result.validation_results.conditions) = 1
    /\ result.validation_results.medications[1].valid
    /\ response.correction_stages = InitialStage

(***************************************************************************)
(* Properties of the generator adapter (SpecSrv).                          *)
(***************************************************************************)
\* the load_model() call of thread t has returned False: get_pipeline handed
\* None to the view
LoadReturnedFalse(t) ==
    tpc[t] = "view" /\ pipeline[t] = NoHandle /\ loading[t] # NoHandle

\* generate_response on a handle that is not loaded raises before generate(...)
UnloadedGenerateIsRefused ==
    \A t \in Threads :
        (tpc[t] = "generate" /\ tpc'[t] = "idle" /\ handles[pipeline[t]] = None)
            => completions' = completions

\* what holds of load_model and generate_response whatever the interleaving:
\* a load_model() call that returns False leaves self.model of every handle
\* as it was, and an unloaded handle never reaches generate(...)
FailedLoadChangesNothing ==
    /\ [][\A t \in Threads :
            (tpc[t] = "load_model" /\ tpc'[t] = "view") => handles' = handles]_vars
    /\ [][UnloadedGenerateIsRefused]_vars

\* C23 (as claimed): once load_model() has returned False the adapter it was
\* called on is unloaded, and generate_response on an adapter that is not
\* loaded fails without a call of generate(...).
C23_FailedLoadLeavesUnloaded ==
    /\ [](\A t \in Threads : LoadReturnedFalse(t) => handles[loading[t]] = None)
    /\ [][UnloadedGenerateIsRefused]_vars

(***************************************************************************)
(* Properties of the stages of one run (Spec), continued.                  *)
(***************************************************************************)
\* C24 (as claimed): once the initial structured result exists, no failure of
\* the self-correction or the fallback stage leaves the orchestrator: the run
\* returns a successful result and the view never answers 500.
C24_StageFailureIsAbsorbed ==
    initial_outcome = "ok" =>
        /\ ~Escaped
        /\ pc \in {"DONE", "RESPONDED"} => result.success
        /\ pc = "RESPONDED" => response.status = 200

\* process_transcript is over: the run has left the initial extraction and the
\* initial validation
ProcessTranscriptOver == pc \notin {"INITIAL", "VALIDATING"}

\* C25 (as claimed): whatever the raw model output is, also JSON of an
\* unexpected shape such as a top-level list, process_transcript returns a
\* result record - a success, or a failure with errors - and raises nothing.
C25_ProcessTranscriptReturns ==
    /\ initial_outcome = "not a dict" =>
          (~Escaped /\ ~result.success /\ result.errors # <<>>)
    /\ (ProcessTranscriptOver /\ initial_outcome \in {"raised", "unparsed", "falsy"}) =>
          (~Escaped /\ ~result.success /\ result.errors # <<>>)
    /\ (ProcessTranscriptOver /\ initial_outcome = "ok") => result.success

\* no entity of d carries a source tag
Untagged(d) ==
    /\ \A i \in DOMAIN d.medications : d.medications[i].source = Absent
    /\ \A i \in DOMAIN d.conditions : d.conditions[i].source = Absent

\* C26: when the request does not ask for validation, a run whose initial
\* extraction gave the structured data returns right after it with success
\* true and the data as extracted: one generation call, no validator call, no
\* correction round and no store lookup.
C26_NoValidationIsSingleStage ==
    (~validate /\ initial_outcome = "ok") =>
        /\ pc \in {"VALIDATING", "DONE", "RESPONDED"}
        /\ generate_calls = 1
        /\ validate_calls = 0
        /\ lookup_calls = 0
        /\ retry_outcome = "none"
        /\ corrected_data = NoData
        /\ oracle = <<>>
        /\ result.validation_results = NoResults
        /\ result.extracted_data.kind \in {"dict", "partial"}
        /\ EntityCount(result.extracted_data) = initial_count
        /\ Untagged(result.extracted_data)
        /\ ProcessTranscriptOver =>
              (Returned /\ result.success /\ result.errors = <<>>)
        /\ pc = "RESPONDED" => (response.status = 200 /\ response.success)

C26_Witness ==
    /\ ~validate /\ use_fallback /\ FHIR_AVAILABLE
    /\ initial_outcome = "ok"
    /\ initial_count = MaxEntities
    /\ pc = "RESPONDED"
    /\ response.success
    /\ result.extracted_data.medications = <<[name |-> "Lisinopril", code |-> "XX", source |-> Absent]>>

\* entity i of the initial extraction passed the initial validation and is
\* still entity i, unchanged, of the data handed to re-validation
KeepsPassing(entities, records, corrected) ==
    \A i \in DOMAIN records :
        records[i].valid =>
            (i \in DOMAIN corrected /\ corrected[i] = entities[i])

\* C27 (as claimed): the data that enters re-validation holds every entity
\* that passed the initial validation, unchanged and at the same position,
\* whatever the correction round's model output was.
C27_PassingEntitiesAreKept ==
    pc = "RE_VALIDATING" =>
        /\ KeepsPassing(result.extracted_data.medications,
                        result.validation_results.medications,
                        corrected_data.medications)
        /\ KeepsPassing(result.extracted_data.conditions,
                        result.validation_results.conditions,
                        corrected_data.conditions)

\* the entity dicts of the list have the same code and source as before
SameCodeAndSource(before, after) ==
    /\ Len(after) = Len(before)
    /\ \A i \in DOMAIN before :
          after[i].code = before[i].code /\ after[i].source = before[i].source

\* the dict handed to fallback_to_vector_db is, after the call, as it was
FallbackInputUntouched ==
    pc = "VECTOR_FALLBACK" =>
        /\ SameCodeAndSource(corrected_data.medications, corrected_data'.medications)
        /\ SameCodeAndSource(corrected_data.conditions, corrected_data'.conditions)

\* C28 (as claimed): fallback_to_vector_db does not mutate the snapshot it is
\* given: after the call the entities of its input have the code and source
\* they had before it, also the entities the lookup hit.
C28_FallbackDoesNotMutateInput == [][FallbackInputUntouched]_vars

\* entry i was found invalid by re-validation and its name has no hit in the
\* store that table tabulates
FallbackMiss(records, table, i) ==
    /\ ~records[i].valid
    /\ records[i].name # None
    /\ table[records[i].name] = None

\* the fallback stage leaves the entities it has no hit for as they were, in
\* its input and in the data it returns
MissesLeftAlone ==
    pc = "VECTOR_FALLBACK" =>
        /\ \A i \in DOMAIN corrected_data.medications :
              FallbackMiss(revalidation_results.medications, RxnormTable, i) =>
                 /\ corrected_data'.medications[i] = corrected_data.medications[i]
                 /\ pc' = "FINAL_VALIDATING" =>
                       final_data'.medications[i] = corrected_data.medications[i]
        /\ \A i \in DOMAIN corrected_data.conditions :
              FallbackMiss(revalidation_results.conditions, Icd10Table, i) =>
                 /\ corrected_data'.conditions[i] = corrected_data.conditions[i]
                 /\ pc' = "FINAL_VALIDATING" =>
                       final_data'.conditions[i] = corrected_data.conditions[i]

\* in the returned result the entities without a hit are as re-validation saw
\* them, with no fallback tag, and their final record is invalid
MissesStayInvalid ==
    (Returned /\ result.correction_stages = FallbackStage) =>
        /\ \A i \in DOMAIN revalidation_results.medications :
              FallbackMiss(revalidation_results.medications, RxnormTable, i) =>
                 /\ result.extracted_data.medications[i].name =
                       revalidation_results.medications[i].name
                 /\ result.extracted_data.medications[i].source = Absent
                 /\ ~oracle[Key("medication", result.extracted_data.medications[i])]
                 /\ ~result.validation_results.medications[i].valid
                 /\ result.validation_results.medications[i].source = "model"
        /\ \A i \in DOMAIN revalidation_results.conditions :
              FallbackMiss(revalidation_results.conditions, Icd10Table, i) =>
                 /\ result.extracted_data.conditions[i].name =
                       revalidation_results.conditions[i].name
                 /\ result.extracted_data.conditions[i].source = Absent
                 /\ ~oracle[Key("condition", result.extracted_data.conditions[i])]
                 /\ ~result.validation_results.conditions[i].valid
                 /\ result.validation_results.conditions[i].source = "model"

\* C29: in the fallback stage every still-invalid entity whose name has no hit
\* in the matching store keeps the code and source it had before the stage,
\* and its final validation record is invalid.
C29_FallbackMissIsLeftAlone == [][MissesLeftAlone]_vars /\ []MissesStayInvalid

C29_Witness ==
    /\ Returned
    /\ result.correction_stages = FallbackStage
    /\ Len(result.extracted_data.medications) = 1
    /\ Len(result.extracted_data.conditions) = 1
    /\ ~revalidation_results.medications[1].valid
    /\ ~revalidation_results.conditions[1].valid
    /\ result.extracted_data.medications[1] =
          [name |-> "Lisinopril", code |-> "314076", source |-> "vector_db_fallback"]
    /\ result.extracted_data.conditions[1] =
          [name |-> "Lisinopril", code |-> "XX", source |-> Absent]
    /\ ~result.validation_results.conditions[1].valid

\* the stages a returned run went through, read off what it did: the
\* correction stage ran when the initial validation found an invalid entity,
\* the fallback stage when re-validation still found one
ExecutedStages ==
    IF ~(InitiallyValidated /\ total_invalid > 0) THEN InitialStage
    ELSE IF TotalInvalid(revalidation_results) > 0 THEN FallbackStage
    ELSE CorrectedStage

\* what the code keeps of C30: the key, when the orchestrator wrote it, names
\* the stages executed; a run that ended after the initial stage has no key
StagesWhenWritten ==
    Returned =>
        /\ result.correction_stages \in {NoStages, CorrectedStage, FallbackStage}
        /\ result.correction_stages # NoStages => result.correction_stages = ExecutedStages
        /\ result.correction_stages = NoStages => ExecutedStages = InitialStage

\* C30 (as claimed): every result the orchestrator returns has the field
\* correction_stages, equal to the list of the stages executed in the run -
\* [initial], [initial, self_correct] or [initial, self_correct, vector_db] -
\* the last exactly when re-validation still found an invalid entity.
C30_StagesArePresent ==
    (use_fallback /\ Returned) =>
        /\ result.correction_stages \in {InitialStage, CorrectedStage, FallbackStage}
        /\ result.correction_stages = ExecutedStages
        /\ result.correction_stages = FallbackStage
              <=> TotalInvalid(revalidation_results) > 0

(***************************************************************************)
(* Properties of the final validation and of the correction prompt (Spec). *)
(***************************************************************************)
\* entry i was found invalid by re-validation and the store has a code for its
\* name: the fallback stage overwrote its code
FallbackHit(records, table, i) ==
    /\ ~records[i].valid
    /\ records[i].name # None
    /\ table[records[i].name] # None

\* the tag the spec gives entry i of the final validation
ClaimedSource(records, table, i) ==
    IF FallbackHit(records, table, i) THEN "vector_db_fallback"
    ELSE IF retry_outcome = "data" THEN "corrected"
    ELSE "model"

\* what the code keeps of C31: the tag is vector_db_fallback exactly for the
\* entities a store lookup overwrote, and model for every other entity
TagsAsWritten ==
    (Returned /\ result.correction_stages = FallbackStage) =>
        /\ \A i \in DOMAIN result.validation_results.medications :
              result.validation_results.medications[i].source =
                 IF FallbackHit(revalidation_results.medications, RxnormTable, i)
                 THEN "vector_db_fallback" ELSE "model"
        /\ \A i \in DOMAIN result.validation_results.conditions :
              result.validation_results.conditions[i].source =
                 IF FallbackHit(revalidation_results.conditions, Icd10Table, i)
                 THEN "vector_db_fallback" ELSE "model"

\* C31 (as claimed): every final validation record carries the tag that says
\* where the entity's code came from: the fallback tag exactly for the entities
\* a store lookup overwrote, corrected for the entities whose code the
\* correction round produced, model for those still holding the code of the
\* initial extraction.
C31_SourceTagTellsOrigin ==
    (Returned /\ result.correction_stages = FallbackStage) =>
        /\ \A i \in DOMAIN result.validation_results.medications :
              result.validation_results.medications[i].source =
                 ClaimedSource(revalidation_results.medications, RxnormTable, i)
        /\ \A i \in DOMAIN result.validation_results.conditions :
              result.validation_results.conditions[i].source =
                 ClaimedSource(revalidation_results.conditions, Icd10Table, i)

\* the position of the k-th invalid record of the list
KthInvalid(records, k) ==
    CHOOSE i \in DOMAIN records :
        /\ ~records[i].valid
        /\ Cardinality({j \in 1..i : ~records[j].valid}) = k

\* the names the prompt lists for one kind of code
ListedNames(codes) ==
    IF \E k \in DOMAIN retry_prompt : retry_prompt[k].codes = codes
    THEN retry_prompt[CHOOSE k \in DOMAIN retry_prompt : retry_prompt[k].codes = codes].names
    ELSE <<>>

\* the names listed are those of the invalid records, one per record, in order
ListsExactlyInvalid(listed, records) ==
    /\ Len(listed) = CountInvalid(records)
    /\ \A k \in DOMAIN listed : listed[k] = records[KthInvalid(records, k)].name
    /\ \A i \in DOMAIN records :
          (records[i].valid /\ \A j \in DOMAIN records : records[j].valid
                                   \/ records[j].name # records[i].name)
              => records[i].name \notin SeqRange(listed)

\* the correction prompt has been built from the initial validation, which
\* result still holds
PromptBuilt ==
    /\ retry_prompt # NoPrompt
    /\ pc \in {"RE_VALIDATING", "VECTOR_FALLBACK", "FINAL_VALIDATING"}

\* C32: the correction prompt names exactly the entities whose initial
\* validation record is invalid: every failed medication and every failed
\* condition is listed by name, under its own kind of code, and no entity that
\* passed is listed.
C32_PromptNamesFailedEntities ==
    /\ retry_outcome # "none" => retry_prompt # NoPrompt
    /\ PromptBuilt =>
          /\ Len(retry_prompt) <= 2
          /\ \A k \in DOMAIN retry_prompt :
                retry_prompt[k].codes \in {"RxNorm", "ICD-10"} /\ retry_prompt[k].names # <<>>
          /\ Len(retry_prompt) = 2 =>
                (retry_prompt[1].codes = "RxNorm" /\ retry_prompt[2].codes = "ICD-10")
          /\ ListsExactlyInvalid(ListedNames("RxNorm"),
                                 result.validation_results.medications)
          /\ ListsExactlyInvalid(ListedNames("ICD-10"),
                                 result.validation_results.conditions)

C32_Witness ==
    /\ pc = "RE_VALIDATING"
    /\ Len(result.validation_results.medications) = 2
    /\ result.validation_results.medications[1].name = "Lisinopril"
    /\ result.validation_results.medications[1].valid
    /\ ~result.validation_results.medications[2].valid
    /\ retry_prompt = <<[codes |-> "RxNorm", names |-> <<"hypertension">>]>>

(***************************************************************************)
(* Properties of the adapter's load and of the process-wide handle         *)
(* (SpecSrv).                                                              *)
(***************************************************************************)
\* thread t's `_pipeline.load_model()` begins: nothing in load_model tests
\* self.model, so the loader load(...) is invoked whenever MLX is there
EntersLoad(t) == tpc[t] = "call_load" /\ tpc'[t] = "load_model"

\* thread t's load_model() returns False
LoadFails(t) == tpc[t] = "load_model" /\ tpc'[t] = "view"

\* C33 (as claimed): once a load has succeeded on an adapter, load_model() on
\* it does not invoke the loader again and returns True.
C33_LoadIsIdempotent ==
    /\ [][\A t \in Threads : EntersLoad(t) => handles[loading'[t]] = None]_vars
    /\ [][\A t \in Threads : LoadFails(t) => handles[loading[t]] = None]_vars

\* the process-wide handle is a loaded adapter
HandleIsLoaded == _pipeline # NoHandle /\ handles[_pipeline] = "loaded"

\* what holds of get_pipeline whatever the interleaving: _pipeline, once set,
\* is never None again, so a request that reads it after a successful load
\* builds nothing and starts no load
NoLoadAfterSuccess ==
    /\ [][_pipeline # NoHandle => _pipeline' # NoHandle]_vars
    /\ [][\A t \in Threads :
            (SomeLoadSucceeded /\ tpc[t] = "get_pipeline" /\ tpc'[t] # "get_pipeline")
                => tpc'[t] = "view"]_vars

\* C34 (as claimed): once a load has succeeded the process-wide handle is that
\* loaded adapter for good: it is never replaced and never unloaded, every
\* request that reads it afterwards gets it, and none starts another load.
C34_LoadedHandleIsReused ==
    /\ [](SomeLoadSucceeded => HandleIsLoaded)
    /\ [][SomeLoadSucceeded => _pipeline' = _pipeline]_vars
    /\ [][\A t \in Threads :
            (SomeLoadSucceeded /\ tpc[t] = "get_pipeline" /\ tpc'[t] # "get_pipeline")
                => (tpc'[t] = "view" /\ handles[pipeline'[t]] = "loaded")]_vars
    /\ [][\A t \in Threads : (SomeLoadSucceeded /\ HandleIsLoaded) => ~EntersLoad(t)]_vars

\* C35 (as claimed): after a load attempt that failed the process-wide handle
\* is unset, so the next request starts a fresh attempt: when no attempt is
\* running and none has succeeded, _pipeline is None.
C35_FailedLoadIsRetried ==
    (NoLoadInFlight /\ ~SomeLoadSucceeded) => _pipeline = NoHandle

\* what the code keeps of C35: an attempt that failed in the import or in the
\* constructor leaves _pipeline as it was, so that alone is retried
ConstructorFailureIsRetried ==
    [][\A t \in Threads :
          (tpc[t] = "construct" /\ tpc'[t] = "view") => _pipeline' = _pipeline]_vars

(***************************************************************************)
(* Properties of the fallback stage and of the success flag (Spec).        *)
(***************************************************************************)
\* after holds the entities of before, in the same number and order and with
\* the same names; an entity differs only when it was invalid and had a store
\* hit, and then only in its code and source
FrameKept(before, records, table, after) ==
    /\ Len(after) = Len(before)
    /\ \A i \in DOMAIN before :
          /\ after[i].name = before[i].name
          /\ records[i].valid => after[i] = before[i]
          /\ after[i] # before[i] =>
                /\ FallbackHit(records, table, i)
                /\ after[i] = [before[i] EXCEPT !.code = table[before[i].name],
                                                !.source = "vector_db_fallback"]

FallbackFrame ==
    pc = "VECTOR_FALLBACK" =>
        /\ corrected_data'.kind = corrected_data.kind
        /\ FrameKept(corrected_data.medications, revalidation_results.medications,
                     RxnormTable, corrected_data'.medications)
        /\ FrameKept(corrected_data.conditions, revalidation_results.conditions,
                     Icd10Table, corrected_data'.conditions)
        /\ pc' = "FINAL_VALIDATING" =>
              /\ FrameKept(corrected_data.medications, revalidation_results.medications,
                           RxnormTable, final_data'.medications)
              /\ FrameKept(corrected_data.conditions, revalidation_results.conditions,
                           Icd10Table, final_data'.conditions)

\* C36: the fallback stage changes nothing but the code and source of the
\* still-invalid entities that got a store hit: an entity whose re-validation
\* record is valid keeps all its fields, and the medications and the
\* conditions are as many, in the same order and with the same names after the
\* stage as before it.
C36_FallbackChangesOnlyHits == [][FallbackFrame]_vars

C36_Witness ==
    /\ pc = "FINAL_VALIDATING"
    /\ Len(final_data.medications) = 1
    /\ Len(final_data.conditions) = 1
    /\ revalidation_results.medications[1].valid
    /\ ~revalidation_results.conditions[1].valid
    /\ final_data.medications[1] = [name |-> "Lisinopril", code |-> "XX", source |-> Absent]
    /\ final_data.conditions[1] =
          [name |-> "hypertension", code |-> "I10", source |-> "vector_db_fallback"]

\* C37: the success flag reflects the initial extraction only.  Every result
\* the orchestrator returns after the initial output was parsed has success
\* true, whatever the later stages found, and every result it returns after a
\* failed initial extraction has success false; the response carries the flag
\* of the result.
C37_SuccessIsInitialExtraction ==
    Returned =>
        /\ result.success <=> (initial_outcome = "ok")
        /\ pc = "RESPONDED" => (response.success <=> (initial_outcome = "ok"))

C37_Witness ==
    /\ pc = "RESPONDED"
    /\ response.status = 200
    /\ response.success
    /\ result.success
    /\ result.correction_stages = FallbackStage
    /\ TotalInvalid(result.validation_results) > 0

(***************************************************************************)
(* Order of input validation and handle acquisition (SpecSrv).             *)
(***************************************************************************)
\* the request of thread t is a POST /process that the input checks reject
Rejected(t) == request[t].kind = "process" /\ ~request[t].transcript_ok

\* a rejected request never gets past the input checks and holds no handle
RejectedStopsAtInput ==
    \A t \in Threads :
        Rejected(t) =>
            /\ tpc[t] \in {"check_input", "idle"}
            /\ pipeline[t] = NoHandle
            /\ loading[t] = NoHandle
            /\ tpc[t] = "idle" => status[t] = 400

\* the step that answers 400 constructs and loads nothing and generates nothing
RejectionTouchesNothing ==
    \A t \in Threads :
        (Rejected(t) /\ tpc[t] = "check_input" /\ tpc'[t] = "idle") =>
            /\ _pipeline' = _pipeline
            /\ handles' = handles
            /\ completions' = completions

\* C38: in POST /process the input is validated before the generator handle
\* is acquired: a request rejected with 400 never reaches get_pipeline, so it
\* triggers no load attempt and no generation call, also while no handle
\* exists yet.
C38_InputCheckedBeforeHandle ==
    []RejectedStopsAtInput /\ [][RejectionTouchesNothing]_vars

C38_Witness ==
    \E t \in Threads :
        /\ Rejected(t)
        /\ tpc[t] = "idle"
        /\ status[t] = 400
        /\ _pipeline = NoHandle
        /\ handles = <<>>
        /\ completions = 0

====
